---- MODULE Spec2Model ----
(***************************************************************************)
(* QdrantClientAsync (src/client/implementations.py): the batched upload   *)
(* of upload_documents, the retry wrapper of add_points_with_retry and the *)
(* per-batch lookup of _verify_batch, run against a vector store that      *)
(* answers every request with one of the replies the client distinguishes. *)
(* Spec is one upload_documents call, SpecOps a sequence of the other      *)
(* client operations, SpecClient both, and SpecConc two upload_documents   *)
(* calls interleaved on one client.                                        *)
(***************************************************************************)
EXTENDS Integers, Sequences, FiniteSets, TLC

\* ---------------------------------------------------------------- bounds
MaxItems == 3
MaxBatchSize == 2
MaxConcItems == 2
MaxIterItems == 2
MaxQueries == 2
MaxGraphNodes == 3
MaxStartRetry == 4
MaxMethods == 2
MaxRoutes == 2
MaxDocs == 3

\* -------------------------------------------------------------- constants
\* stop_after_attempt(max_attempt_number=3)
MaxAttemptsOneMore == 3 + 1
MaxAttempts == 3
\* wait_exponential(multiplier=1, min=1, max=10)
WaitMultiplier == 1
WaitMin == 1
WaitMax == 10
WaitExpBase == 2
\* await client.upload_documents(items=conformed_collection, batch_size=50)
NodeBatchSize == 50
\* if state["max_retry"] == 3
MaxRetry == 3

NoVal == "none"

\* dense_size of the client under test (conftest.py) and the default
\* sample_for_verification_size of __init__
DenseSize == 3072
SampleSize == 5

\* ------------------------------------------------------------------ items
\* A raw record as handed to upload_documents: the three fields of the
\* entry schema, each either present with a given shape or absent.
\* A vector is described by its shape and the number of floats it holds.
Vector(shape, len) == [shape |-> shape, len |-> len]
DictVector == Vector("dict", DenseSize)
\* {"dense": [0.1, 0.2, 0.3]}, the vectors of test_upload_documents
ShortVector == Vector("dict", 3)
ListVector == Vector("list", DenseSize)
MissingVector == Vector("missing", 0)

Entry(id) == [id |-> id, vector |-> DictVector, payload |-> "mapping"]

\* the document of test_transform_points_fail: a flat vector, no id, no payload
MalformedEntry == [id |-> NoVal, vector |-> ListVector, payload |-> NoVal]

ShortEntry(id) == [id |-> id, vector |-> ShortVector, payload |-> "mapping"]

ItemPool == {Entry("a"), ShortEntry("b"), MalformedEntry}

RECURSIVE SeqsUpTo(_, _)
SeqsUpTo(S, n) ==
    IF n = 0 THEN {<<>>}
    ELSE LET shorter == SeqsUpTo(S, n - 1)
         IN  shorter \cup {Append(s, x) : s \in {t \in shorter : Len(t) = n - 1}, x \in S}

ItemLists == SeqsUpTo(ItemPool, MaxItems)
BatchSizes == (-1) .. MaxBatchSize

\* QdrantValidator: id: str, vector: Dict[str, List[float]], payload: Dict[str, Any]
QdrantValidatorAcceptAll(item) == TRUE
QdrantValidator(item) ==
    /\ item.id # NoVal
    /\ item.vector.shape = "dict"
    /\ item.payload # NoVal

\* _verify_points: returns the item itself, or raises ValidationError
_verify_points_returns_dump(item) ==
    IF QdrantValidator(item)
    THEN [raised |-> FALSE, value |-> [item EXCEPT !.payload = "model_dump"]]
    ELSE [raised |-> TRUE, value |-> item]
_verify_points(item) ==
    IF QdrantValidator(item)
    THEN [raised |-> FALSE, value |-> item]
    ELSE [raised |-> TRUE, value |-> item]

\* ---------------------------------------------------------------- replies
\* What the client can observe of an HTTP exchange: whether the transport
\* delivered a response at all, the status class, whether the body is JSON,
\* and the "status" / "result" members of a JSON body.
Reply(transport, http, json, status, result) ==
    [transport |-> transport, http |-> http, json |-> json,
     status |-> status, result |-> result]

NoReply == Reply("idle", NoVal, FALSE, NoVal, NoVal)

PutOk == Reply("ok", "2xx", TRUE, "ok", NoVal)
PutSoft == Reply("ok", "2xx", TRUE, "error", NoVal)
PutNoStatus == Reply("ok", "2xx", TRUE, NoVal, NoVal)
PutHttpError == Reply("ok", "non2xx", TRUE, "error", NoVal)
PutNonJson == Reply("ok", "non2xx", FALSE, NoVal, NoVal)
PutConnFail == Reply("fail", NoVal, FALSE, NoVal, NoVal)
PutReplies == {PutOk, PutSoft, PutNoStatus, PutHttpError, PutNonJson, PutConnFail}

GetFound == Reply("ok", "2xx", TRUE, "ok", "point")
GetEmpty == Reply("ok", "2xx", TRUE, "ok", NoVal)
GetHttpError == Reply("ok", "non2xx", TRUE, "error", NoVal)
GetNonJson == Reply("ok", "2xx", FALSE, NoVal, NoVal)
GetConnFail == Reply("fail", NoVal, FALSE, NoVal, NoVal)
GetReplies == {GetFound, GetEmpty, GetHttpError, GetNonJson, GetConnFail}

\* add_points_with_retry body: session.put(...) then response.json(), with
\* no raise_for_status: an attempt raises when the transport fails or the
\* body is not JSON.
AttemptRaisesOnSoftStatus(reply) ==
    reply.transport = "fail" \/ ~reply.json \/ reply.status # "ok"
AttemptRaises(reply) ==
    reply.transport = "fail" \/ ~reply.json

\* _verify_batch: session.get, raise_for_status, response.json(); every
\* exception is logged and re-raised.
VerifyExceptionOnMissing(reply) ==
    IF reply.transport = "fail" THEN "ClientConnectionError"
    ELSE IF reply.http # "2xx" THEN "ClientResponseError"
    ELSE IF ~reply.json THEN "ContentTypeError"
    ELSE IF reply.result = NoVal THEN "PointNotFound"
    ELSE NoVal
VerifyExceptionToleratesNonJson(reply) ==
    IF reply.transport = "fail" THEN "ClientConnectionError"
    ELSE IF reply.http # "2xx" THEN "ClientResponseError"
    ELSE NoVal
VerifyException(reply) ==
    IF reply.transport = "fail" THEN "ClientConnectionError"
    ELSE IF reply.http # "2xx" THEN "ClientResponseError"
    ELSE IF ~reply.json THEN "ContentTypeError"
    ELSE NoVal

\* What an exception that leaves upload_documents carries. The except block
\* re-raises with a bare raise and attaches nothing, so the caller gets the
\* exception object as tenacity, pydantic or aiohttp built it: RetryError
\* holds the last attempt, ValidationError the field errors, the response
\* errors the status and the request URL (which ends in the point id).
AttachedContext == {}
ExceptionContext(e) ==
    AttachedContext \cup
    (CASE e = "RetryError" -> {"last_attempt"}
       [] e = "ValidationError" -> {"field_errors"}
       [] e \in {"ClientResponseError", "ContentTypeError"} ->
              {"http_status", "point_id"}
       [] OTHER -> {})

\* --------------------------------------------------- one-pass iterables
\* a generator over items: what it yields in all, and how far it has been read
Iterable(items) == [kind |-> "iterator", items |-> items, pos |-> 0]
NoSource == [kind |-> "none", items |-> <<>>, pos |-> 0]

\* list(it): the items not yet read, leaving the iterator at its end
list(it) ==
    [list |-> SubSeq(it.items, it.pos + 1, Len(it.items)),
     source |-> [it EXCEPT !.pos = Len(it.items)]]

IterLists == SeqsUpTo(ItemPool, MaxIterItems)

\* ------------------------------------------- concurrent calls, their data
\* two upload_documents coroutines running on one event loop
Calls == {1, 2}

\* each call uploads a list of its own, with ids the other call does not use
ConcPool(c) ==
    IF c = 1 THEN <<Entry("a"), ShortEntry("b"), Entry("e")>>
    ELSE <<Entry("c"), MalformedEntry, Entry("d")>>
ConcInputs(c) == {SubSeq(ConcPool(c), 1, n) : n \in 0 .. MaxConcItems}
ConcPutReplies == {PutOk, PutSoft, PutConnFail}
ConcGetReplies == {GetFound, GetConnFail}

\* the locals of one upload_documents call, the requests it has sent and the
\* replies it has consumed
Frame(pcv, items, bs, iv, att, total, sent, replies, excv) ==
    [pc |-> pcv, items |-> items, bs |-> bs, i |-> iv, attempt |-> att,
     total |-> total, sent |-> sent, replies |-> replies, exc |-> excv]
IdleFrame == Frame("idle", <<>>, 1, 0, 0, 0, <<>>, <<>>, NoVal)

\* the body of one PUT /collections/{name}/points request
PutRequest(pts, att) == [points |-> pts, attempt |-> att]

\* ------------------------------------------------- configuration, ops data
\* __init__: the name-mangled attributes of the client
InitConfig ==
    [data_model |-> "QdrantValidator",
     collection_name |-> "testing_qdrant_client",
     base_url |-> "http://localhost:6333",
     headers |-> "content-type, api-key",
     dense_size |-> DenseSize,
     sample_for_verification_size |-> SampleSize]

\* raw items handed to _verify_points: every field present or absent, the
\* vector in each of its shapes
NoItem == [id |-> NoVal, vector |-> MissingVector, payload |-> NoVal]
RawItems ==
    [id : {NoVal, "a", "b"},
     vector : {MissingVector, DictVector, ShortVector, ListVector},
     payload : {NoVal, "mapping"}]

\* a query of batch_queries: {"vector": ..., "query": ...}, the label optional
Query(vector, label) == [vector |-> vector, label |-> label]
QueryPool == {Query("v1", "q1"), Query("v2", "q2"), Query("v1", NoVal)}
QueryLists == SeqsUpTo(QueryPool, MaxQueries)

\* the result lists of a search response, each named by a token
ResultPool == {"r1", "r2"}
ResultLists == SeqsUpTo(ResultPool, MaxQueries)

OpArg(item, queries, id) == [item |-> item, queries |-> queries, id |-> id]
NoArg == OpArg(NoItem, <<>>, NoVal)

\* A reply as the other operations see it: the "status" member is "ok",
\* another string, an object, or absent; "result" is present or absent.
OpReply(transport, http, json, status, has_result, result) ==
    [transport |-> transport, http |-> http, json |-> json, status |-> status,
     has_result |-> has_result, result |-> result]
NoOpReply == OpReply("idle", NoVal, FALSE, NoVal, FALSE, <<>>)
OpTimeout == OpReply("fail", NoVal, FALSE, NoVal, FALSE, <<>>)
OpNonJson == OpReply("ok", "2xx", FALSE, NoVal, FALSE, <<>>)
OpHttpError == OpReply("ok", "non2xx", TRUE, "object:error", FALSE, <<>>)
OpNoResult == OpReply("ok", "2xx", TRUE, "ok", FALSE, <<>>)
OpOk(result) == OpReply("ok", "2xx", TRUE, "ok", TRUE, result)
OpFailures == {OpTimeout, OpNonJson, OpHttpError}

\* replies to PUT /collections/{name}
WrongInputExists == "Wrong input: Collection already exists"
CreateOk == OpReply("ok", "2xx", TRUE, "ok", TRUE, <<>>)
\* the store names the conflict in a 2xx body, or in the error object of a
\* 409 body
CreateExists2xx == OpReply("ok", "2xx", TRUE, WrongInputExists, FALSE, <<>>)
CreateExistsConflict == OpReply("ok", "non2xx", TRUE, "object:already exists", FALSE, <<>>)
CreateNoStatus == OpReply("ok", "2xx", TRUE, NoVal, TRUE, <<>>)
\* status=404, payload={"status": "error"} of test_created_collection_failure
CreateNotFound == OpReply("ok", "non2xx", TRUE, "error", FALSE, <<>>)
CreateReplies ==
    {CreateOk, CreateExists2xx, CreateExistsConflict, CreateNoStatus,
     CreateNotFound} \cup OpFailures

ReadReplies == {OpOk(<<"r1">>), OpNoResult} \cup OpFailures
SearchReplies == {OpOk(r) : r \in ResultLists} \cup {OpNoResult} \cup OpFailures

\* the return value of an operation: a response body, a list, or an item
Result(body, lst, item) == [body |-> body, list |-> lst, item |-> item]
NoResult == Result(NoOpReply, <<>>, NoItem)

\* ------------------------------------------------------------------ state
VARIABLES
    pc,             \* position of the upload_documents coroutine
    items_list,     \* the materialised input
    batch_size,
    i,              \* loop variable of range(0, len(items_list), batch_size)
    points,         \* validated points of the current batch
    attempt,        \* attempt number of the running add_points_with_retry
    response,       \* local `response` of upload_documents
    total_uploaded,
    add_calls,      \* calls of add_points_with_retry
    verify_calls,   \* calls of _verify_batch
    validations,    \* item positions handed to _verify_points, in order
    inflight,       \* requests sent and not yet answered to the client
    wire,           \* reply on its way to the client
    store,          \* ids of the points the store holds
    trace,          \* requests issued and replies consumed, in order
    logged,         \* level and message of the latest logging call
    exc,            \* exception raised to the caller of upload_documents
    sleep           \* the wait the retry wrapper is taking, 0 when none

uploadVars == <<pc, items_list, batch_size, i, points, attempt, response,
                total_uploaded, add_calls, verify_calls, validations, inflight,
                wire, store, trace, logged, exc, sleep>>

VARIABLES
    config,         \* the private attributes set by __init__
    collections,    \* number of collections of this name the store holds
    op_name,        \* the client method running outside upload_documents
    op_pc,          \* its position: idle, await, returned or raised
    op_arg,         \* its arguments
    op_requests,    \* requests it has issued
    op_wire,        \* the reply to its request
    op_result,      \* its return value
    op_exc          \* the exception it raised

opVars == <<config, collections, op_name, op_pc, op_arg, op_requests,
            op_wire, op_result, op_exc>>

VARIABLES
    frames          \* the local variables of each of two concurrent
                    \* upload_documents calls on the one client

concVars == <<frames>>

VARIABLES
    source,         \* the iterable handed to upload_documents by its caller
    passes          \* how many times that iterable has been iterated

iterVars == <<source, passes>>

VARIABLES
    node_pc,        \* position of upload_points_to_qdrant
    session,        \* the aiohttp.ClientSession of the node
    node_status,    \* state["status"] as the node writes it
    node_error      \* state["error"] as the node writes it: the message

nodeVars == <<node_pc, session, node_status, node_error>>

VARIABLES
    graph,          \* the StateGraph the constructor has built
    graph_pc,       \* the node the workflow is at
    state,          \* the StateDictionary handed from node to node
    decision,       \* what evaluator_router returned last
    runs,           \* how often each node function has run
    llm_calls       \* chain.ainvoke calls made so far

graphVars == <<graph, graph_pc, state, decision, runs, llm_calls>>

VARIABLES
    routes,         \* the routes registered on the FastAPI application
    route_exc       \* the exception of the last add_route call

routeVars == <<routes, route_exc>>

VARIABLES
    enc_pc,                 \* position in the encoding part of the node
    prepared_collection,    \* the dictionaries of the tee'd generator
    encoded,                \* the vector of each finished encode call
    finished,               \* the encode calls in their order of completion
    conformed_collection    \* the entries handed to upload_documents

encodeVars == <<enc_pc, prepared_collection, encoded, finished, conformed_collection>>

flowVars == <<graphVars, routeVars, encodeVars>>

nonUploadVars == <<opVars, concVars, iterVars, nodeVars, flowVars>>
nonOpVars == <<uploadVars, concVars, iterVars, nodeVars, flowVars>>
nonConcVars == <<uploadVars, opVars, iterVars, nodeVars, flowVars>>

vars == <<uploadVars, nonUploadVars>>

Event(ev, batch, att, pts, id, raised) ==
    [ev |-> ev, batch |-> batch, attempt |-> att, points |-> pts, id |-> id,
     raised |-> raised]

Log(level, msg) == [level |-> level, msg |-> msg]

Min(a, b) == IF a < b THEN a ELSE b
Max(a, b) == IF a > b THEN a ELSE b

\* the wait after attempt number n: multiplier * exp_base ** (n - 1), kept
\* between min and max
RECURSIVE Power(_, _)
Power(b, n) == IF n = 0 THEN 1 ELSE b * Power(b, n - 1)

wait_exponential_from_base(n) ==
    Max(Max(0, WaitMin), Min(WaitMultiplier * Power(WaitExpBase, n), WaitMax))
wait_exponential(n) ==
    Max(Max(0, WaitMin), Min(WaitMultiplier * Power(WaitExpBase, n - 1), WaitMax))

\* batch_num = (i // batch_size) + 1
batch_num == (i \div batch_size) + 1

\* items_list[i: i + batch_size]
batch_items_one_more == SubSeq(items_list, i + 1, Min(i + batch_size + 1, Len(items_list)))
batch_items == SubSeq(items_list, i + 1, Min(i + batch_size, Len(items_list)))

\* i in range(0, len(items_list), batch_size); a negative step gives an
\* empty range
InRange == batch_size > 0 /\ i < Len(items_list)

\* the next value of the range: i + batch_size
range_next_by_one == i + 1
range_next == i + batch_size

\* points[0]["id"], the argument of _verify_batch
verify_point_id_last == points[Len(points)].id
verify_point_id == points[1].id

PointIds(pts) == {pts[j].id : j \in 1 .. Len(pts)}

\* ------------------------------------------------------- workflow graph
\* EvalDecision
RETRY == "retry"
CORRECT == "correct"
MAX_RETRY == "max_retry"

\* START and END of langgraph.graph
START == "__start__"
END == "__end__"

\* NodeFunctionsTuple without the function: a conditional_mapping is the set
\* of its (decision, node) pairs, empty when None; loop_back_to is NoVal
\* when None.
NodeFunctionsTuple(node_name, edge_type, conditional_mapping, loop_back_to) ==
    [node_name |-> node_name, edge_type |-> edge_type,
     conditional_mapping |-> conditional_mapping, loop_back_to |-> loop_back_to]

NODES_FUNCS ==
    << NodeFunctionsTuple("document_parser", "directed", {}, NoVal),
       NodeFunctionsTuple("qa_generator", "directed", {}, NoVal),
       NodeFunctionsTuple("evaluator", "conditional",
                          {<<RETRY, "qa_refiner">>,
                           <<CORRECT, "conform_points_to_qdrant">>,
                           <<MAX_RETRY, "conform_points_to_qdrant">>}, NoVal),
       NodeFunctionsTuple("qa_refiner", "directed", {}, "evaluator"),
       NodeFunctionsTuple("conform_points_to_qdrant", "directed", {}, NoVal),
       NodeFunctionsTuple("qdrant_uploader", "directed", {}, NoVal) >>

NodeNames == {NODES_FUNCS[k].node_name : k \in DOMAIN NODES_FUNCS}

\* the node lists handed to the constructor: NODES_FUNCS itself and every
\* arrangement of at most MaxGraphNodes of its entries
NodeLists ==
    {NODES_FUNCS} \cup
    {s \in SeqsUpTo({NODES_FUNCS[k] : k \in DOMAIN NODES_FUNCS}, MaxGraphNodes) :
        \A a, b \in DOMAIN s : a # b => s[a] # s[b]}

\* the targets of every conditional mapping, and the nodes that loop back
conditional_targets(node_functions) ==
    {m[2] : m \in UNION {node_functions[k].conditional_mapping :
                            k \in DOMAIN node_functions}}

loop_back_sources(node_functions) ==
    {node_functions[k].node_name :
        k \in {j \in DOMAIN node_functions : node_functions[j].loop_back_to # NoVal}}

\* whether the directed node at index k (1-based, k > 1) gets an edge from
\* the node before it
should_add_edge_to_every_node(node_functions, k) ==
    node_functions[k - 1].edge_type # "conditional"
should_add_edge(node_functions, k) ==
    /\ node_functions[k - 1].edge_type # "conditional"
    /\ \/ node_functions[k].node_name \notin conditional_targets(node_functions)
       \/ node_functions[k].loop_back_to # NoVal

\* the add_edge calls of the second pass at index k
edges_of(node_functions, k) ==
    LET fn == node_functions[k]
        first == IF k = 1 THEN {<<START, fn.node_name>>} ELSE {}
        prev == IF k > 1 THEN {<<node_functions[k - 1].node_name, fn.node_name>>}
                ELSE {}
    IN  first \cup
        CASE fn.edge_type = "directed" ->
                (IF k > 1 /\ should_add_edge(node_functions, k) THEN prev ELSE {})
                \cup (IF fn.loop_back_to # NoVal
                      THEN {<<fn.node_name, fn.loop_back_to>>} ELSE {})
          [] fn.edge_type = "conditional" -> prev
          [] OTHER -> {}

\* the final node: the last directed node that is neither a conditional
\* target nor a loop-back source; the empty set when there is none
final_node(node_functions) ==
    LET candidates ==
            {k \in DOMAIN node_functions :
                /\ node_functions[k].node_name \notin conditional_targets(node_functions)
                /\ node_functions[k].node_name \notin loop_back_sources(node_functions)
                /\ node_functions[k].edge_type = "directed"}
    IN  {node_functions[k].node_name :
            k \in {j \in candidates : \A other \in candidates : other <= j}}

\* a StateGraph: the list it was built from, its edges, its conditional
\* edges as (source, decision, target), and whether the constructor raised
StateGraph(node_functions, edges, branches, raised) ==
    [node_functions |-> node_functions, edges |-> edges, branches |-> branches,
     raised |-> raised]
NoGraph == StateGraph(<<>>, {}, {}, FALSE)

\* self_reflecting_stategraph_factory_constructor: ValueError for a
\* conditional node without router function or without mapping
self_reflecting_stategraph_factory_constructor(node_functions, router_function) ==
    LET conditional == {k \in DOMAIN node_functions :
                            node_functions[k].edge_type = "conditional"}
    IN  IF \E k \in conditional :
              ~router_function \/ node_functions[k].conditional_mapping = {}
        THEN StateGraph(node_functions, {}, {}, TRUE)
        ELSE StateGraph(node_functions,
                        UNION {edges_of(node_functions, k) : k \in DOMAIN node_functions}
                            \cup {<<n, END>> : n \in final_node(node_functions)},
                        UNION {{<<node_functions[k].node_name, m[1], m[2]>> :
                                    m \in node_functions[k].conditional_mapping} :
                               k \in conditional},
                        FALSE)

\* ------------------------------------------------------ workflow state
\* StateDictionary: the fields the nodes read and write; None is NoVal,
\* an error is its message, a question-answer set is a marker of which
\* LLM produced it.
StateDictionary(status, original_document, generated_qa, evaluator_response, refined_qa, max_retry, error) ==
    [status |-> status, original_document |-> original_document,
     generated_qa |-> generated_qa, evaluator_response |-> evaluator_response,
     refined_qa |-> refined_qa, max_retry |-> max_retry, error |-> error]

\* the initial_state of upload_docx
initial_state == StateDictionary(NoVal, NoVal, NoVal, NoVal, NoVal, 0, NoVal)

\* what the evaluator LLM may answer in the "evaluation" field: the parser
\* does not enforce the Literal of LlmEvaluatorResponse
Evaluations == {"retry", "correct", "acceptable"}

\* the states a node function or the router may be called with
StartStates ==
    {StateDictionary(NoVal, "text", "generated", ev, qa, n, err) :
        ev \in Evaluations, qa \in {NoVal, "refined"},
        n \in 0 .. MaxStartRetry, err \in {NoVal, "Exception"}}

\* evaluator_router: the state itself when it holds an error
evaluator_router_limit_above(s) ==
    IF s.error # NoVal THEN "state"
    ELSE IF s.evaluator_response = "retry"
         THEN IF s.max_retry = MaxRetry + 1 THEN MAX_RETRY ELSE RETRY
         ELSE CORRECT
evaluator_router(s) ==
    IF s.error # NoVal THEN "state"
    ELSE IF s.evaluator_response = "retry"
         THEN IF s.max_retry = MaxRetry THEN MAX_RETRY ELSE RETRY
         ELSE CORRECT

\* parse_wordformat_document
parse_wordformat_document(s) ==
    IF s.error # NoVal THEN s
    ELSE [s EXCEPT !.status = "Parsing docx file step completed",
                   !.original_document = "text"]

\* the outcome of chain.ainvoke: a parsed answer, or an exception
LlmRaises == "raise"

\* qa_generator_node
qa_generator_node(s, llm) ==
    IF s.error # NoVal THEN s
    ELSE IF llm = LlmRaises
         THEN [s EXCEPT !.status = "Error in the Generator_qa step",
                        !.error = "Exception"]
         ELSE [s EXCEPT !.status = "Generator_qa step completed",
                        !.generated_qa = "generated"]

\* evaluator_node
evaluator_node_unguarded(s, llm) ==
    IF llm = LlmRaises
    THEN [s EXCEPT !.status = "Error in the evaluator_qa step",
                   !.error = "Exception"]
    ELSE [s EXCEPT !.status = "Evaluator_qa step completed",
                   !.evaluator_response = llm]
evaluator_node(s, llm) ==
    IF s.error # NoVal THEN s
    ELSE IF llm = LlmRaises
         THEN [s EXCEPT !.status = "Error in the evaluator_qa step",
                        !.error = "Exception"]
         ELSE [s EXCEPT !.status = "Evaluator_qa step completed",
                        !.evaluator_response = llm]

\* qa_refiner_node
qa_refiner_node(s, llm) ==
    IF s.error # NoVal THEN s
    ELSE IF llm = LlmRaises
         THEN [s EXCEPT !.status = "Error in the refiner_qa step",
                        !.error = "Exception"]
         ELSE [s EXCEPT !.max_retry = @ + 1,
                        !.status = "Refiner_qa step completed",
                        !.refined_qa = "refined"]

\* conform_points_to_qdrant: the workflow goes from evaluation to upload
\* with the question-answer sets as they are
conform_points_to_qdrant(s) == s

\* whether the node function makes its LLM call on s
CallsLlm(s) == s.error = NoVal

Init ==
    /\ pc = "idle"
    /\ items_list = <<>>
    /\ batch_size = 1
    /\ i = 0
    /\ points = <<>>
    /\ attempt = 0
    /\ response = NoReply
    /\ total_uploaded = 0
    /\ add_calls = 0
    /\ verify_calls = 0
    /\ validations = <<>>
    /\ inflight = {}
    /\ wire = NoReply
    /\ store = {}
    /\ trace = <<>>
    /\ logged = Log(NoVal, NoVal)
    /\ exc = NoVal
    /\ sleep = 0
    /\ config = InitConfig
    /\ collections = 0
    /\ op_name = NoVal
    /\ op_pc = "idle"
    /\ op_arg = NoArg
    /\ op_requests = 0
    /\ op_wire = NoOpReply
    /\ op_result = NoResult
    /\ op_exc = NoVal
    /\ frames = [c \in Calls |-> IdleFrame]
    /\ source = NoSource
    /\ passes = 0
    /\ node_pc = "start"
    /\ session = "none"
    /\ node_status = NoVal
    /\ node_error = NoVal
    /\ graph = NoGraph
    /\ graph_pc = "idle"
    /\ state = initial_state
    /\ decision = NoVal
    /\ runs = [n \in NodeNames |-> 0]
    /\ llm_calls = 0
    /\ routes = <<>>
    /\ route_exc = NoVal
    /\ enc_pc = "idle"
    /\ prepared_collection = <<>>
    /\ encoded = <<>>
    /\ finished = <<>>
    /\ conformed_collection = <<>>

\* -------------------------------------------------------- upload_documents
\* Entry of upload_documents: materialise the input and build the range;
\* range() raises ValueError for a zero step.
upload_documents(items, bs) ==
    /\ UNCHANGED nonUploadVars
    /\ pc = "idle"
    /\ items_list' = items
    /\ batch_size' = bs
    /\ i' = 0
    /\ total_uploaded' = 0
    /\ IF bs = 0
       THEN /\ pc' = "raised"
            /\ exc' = "ValueError"
       ELSE /\ pc' = "loop"
            /\ exc' = exc
    /\ UNCHANGED <<sleep, points, attempt, response, add_calls, verify_calls,
                   validations, inflight, wire, store, trace, logged>>

\* positions of the batch handed to _verify_points: the list comprehension
\* stops at the first item that raises
FirstInvalid(batch) ==
    LET bad == {j \in 1 .. Len(batch) : _verify_points(batch[j]).raised}
    IN  IF bad = {} THEN 0 ELSE CHOOSE j \in bad : \A m \in bad : j <= m

Validated(batch) ==
    LET f == FirstInvalid(batch)
        upto == IF f = 0 THEN Len(batch) ELSE f
    IN  [j \in 1 .. upto |-> i + j]

\* One pass of the loop head: slice the batch, validate every item, and
\* enter add_points_with_retry.
loop_batch ==
    /\ UNCHANGED nonUploadVars
    /\ pc = "loop"
    /\ InRange
    /\ validations' = validations \o Validated(batch_items)
    /\ IF FirstInvalid(batch_items) = 0
       THEN /\ points' = [j \in 1 .. Len(batch_items) |->
                              _verify_points(batch_items[j]).value]
            /\ attempt' = 1
            /\ add_calls' = add_calls + 1
            /\ pc' = "put_send"
            /\ UNCHANGED <<exc, logged>>
       ELSE /\ pc' = "raised"
            /\ exc' = "ValidationError"
            /\ logged' = Log("error", "validation error")
            /\ UNCHANGED <<points, attempt, add_calls>>
    /\ UNCHANGED <<sleep, items_list, batch_size, i, response, total_uploaded,
                   verify_calls, inflight, wire, store, trace>>

\* The range is exhausted: return None.
loop_exit ==
    /\ UNCHANGED nonUploadVars
    /\ pc = "loop"
    /\ ~InRange
    /\ pc' = "returned"
    /\ UNCHANGED <<sleep, items_list, batch_size, i, points, attempt, response,
                   total_uploaded, add_calls, verify_calls, validations,
                   inflight, wire, store, trace, logged, exc>>

\* --------------------------------------------------- add_points_with_retry
\* One attempt: PUT /collections/{name}/points with the whole batch.
put_send_fresh_ids ==
    /\ UNCHANGED nonUploadVars
    /\ pc = "put_send"
    /\ LET sent == IF attempt = 1 THEN points
                   ELSE [j \in 1 .. Len(points) |->
                            [points[j] EXCEPT !.id = "retry"]]
           req == Event("put", batch_num, attempt, sent, NoVal, FALSE)
       IN  /\ inflight' = inflight \cup {req}
           /\ trace' = Append(trace, req)
    /\ pc' = "await_put"
    /\ UNCHANGED <<sleep, items_list, batch_size, i, points, attempt, response,
                   total_uploaded, add_calls, verify_calls, validations,
                   wire, store, logged, exc>>

put_send ==
    /\ UNCHANGED nonUploadVars
    /\ pc = "put_send"
    /\ LET req == Event("put", batch_num, attempt, points, NoVal, FALSE)
       IN  /\ inflight' = inflight \cup {req}
           /\ trace' = Append(trace, req)
    /\ pc' = "await_put"
    /\ UNCHANGED <<sleep, items_list, batch_size, i, points, attempt, response,
                   total_uploaded, add_calls, verify_calls, validations,
                   wire, store, logged, exc>>

\* The attempt resumes with the reply: response.json() is returned, or the
\* exception goes to the retry wrapper, which sleeps and tries again until
\* the attempt limit and then raises RetryError.
put_recv ==
    /\ UNCHANGED nonUploadVars
    /\ pc = "await_put"
    /\ wire # NoReply
    /\ inflight' = {}
    /\ wire' = NoReply
    /\ trace' = Append(trace, Event("put_reply", batch_num, attempt, <<>>,
                                    NoVal, AttemptRaises(wire)))
    /\ IF ~AttemptRaises(wire)
       THEN /\ response' = wire
            /\ pc' = "uploaded"
            /\ UNCHANGED <<exc, logged, sleep>>
       ELSE IF attempt < MaxAttempts
       THEN /\ pc' = "backoff"
            /\ sleep' = wait_exponential(attempt)
            /\ UNCHANGED <<response, exc, logged>>
       ELSE /\ pc' = "raised"
            /\ exc' = "RetryError"
            /\ logged' = Log("error", "fail in the process")
            /\ UNCHANGED <<response, sleep>>
    /\ UNCHANGED <<items_list, batch_size, i, points, attempt,
                   total_uploaded, add_calls, verify_calls, validations,
                   store>>

\* The wait between two attempts is over.
backoff ==
    /\ UNCHANGED nonUploadVars
    /\ pc = "backoff"
    /\ attempt' = attempt + 1
    /\ sleep' = 0
    /\ pc' = "put_send"
    /\ UNCHANGED <<items_list, batch_size, i, points, response,
                   total_uploaded, add_calls, verify_calls, validations,
                   inflight, wire, store, trace, logged, exc>>

\* ------------------------------------------------------------- after upload
\* Lines 308-317: count the batch, check the response status (a warning
\* only), and issue the lookup of the first point of the batch.
StatusOk(resp) == resp.status = "ok"

after_upload_fire_and_forget ==
    /\ UNCHANGED nonUploadVars
    /\ pc = "uploaded"
    /\ total_uploaded' = total_uploaded + Len(points)
    /\ logged' = IF StatusOk(response)
                 THEN Log("info", "uploaded batch")
                 ELSE Log("warning", "error uploading batch")
    /\ verify_calls' = verify_calls + 1
    /\ LET req == Event("get", batch_num, 1, <<>>, verify_point_id, FALSE)
       IN  /\ inflight' = inflight \cup {req}
           /\ trace' = Append(trace, req)
    /\ i' = range_next
    /\ pc' = "loop"
    /\ UNCHANGED <<sleep, items_list, batch_size, points, attempt, response,
                   add_calls, validations, wire, store, exc>>

after_upload ==
    /\ UNCHANGED nonUploadVars
    /\ pc = "uploaded"
    /\ total_uploaded' = total_uploaded + Len(points)
    /\ logged' = IF StatusOk(response)
                 THEN Log("info", "uploaded batch")
                 ELSE Log("warning", "error uploading batch")
    /\ verify_calls' = verify_calls + 1
    /\ LET req == Event("get", batch_num, 1, <<>>, verify_point_id, FALSE)
       IN  /\ inflight' = inflight \cup {req}
           /\ trace' = Append(trace, req)
    /\ pc' = "await_get"
    /\ UNCHANGED <<sleep, items_list, batch_size, i, points, attempt, response,
                   add_calls, validations, wire, store, exc>>

\* _verify_batch resumes with the reply; upload_documents logs the outcome
\* of the lookup and moves to the next batch, or re-raises.
get_recv ==
    /\ UNCHANGED nonUploadVars
    /\ pc = "await_get"
    /\ wire # NoReply
    /\ inflight' = {}
    /\ wire' = NoReply
    /\ trace' = Append(trace, Event("get_reply", batch_num, 1, <<>>,
                                    verify_point_id, VerifyException(wire) # NoVal))
    /\ IF VerifyException(wire) = NoVal
       THEN /\ logged' = IF wire.result # NoVal
                         THEN Log("info", "verified first item")
                         ELSE Log("warning", "failed to verify first item")
            /\ i' = range_next
            /\ response' = NoReply
            /\ pc' = "loop"
            /\ exc' = exc
       ELSE /\ logged' = Log("error", "fail in the process")
            /\ pc' = "raised"
            /\ exc' = VerifyException(wire)
            /\ UNCHANGED <<i, response>>
    /\ UNCHANGED <<sleep, items_list, batch_size, points, attempt, total_uploaded,
                   add_calls, verify_calls, validations, store>>

\* ------------------------------------------------------------------ store
\* The store answers the outstanding upload request; it may or may not
\* have applied the points (upsert by id) whatever it answers.
qdrant_put(reply, applied) ==
    /\ UNCHANGED nonUploadVars
    /\ wire = NoReply
    /\ \E req \in inflight :
          /\ req.ev = "put"
          /\ store' = IF applied THEN store \cup PointIds(req.points) ELSE store
    /\ wire' = reply
    /\ UNCHANGED <<sleep, pc, items_list, batch_size, i, points, attempt, response,
                   total_uploaded, add_calls, verify_calls, validations,
                   inflight, trace, logged, exc>>

\* The store answers the outstanding point lookup: a result only for a
\* point it holds.
qdrant_get(reply) ==
    /\ UNCHANGED nonUploadVars
    /\ wire = NoReply
    /\ \E req \in inflight :
          /\ req.ev = "get"
          /\ reply = GetFound => req.id \in store
          /\ reply = GetEmpty => req.id \notin store
    /\ wire' = reply
    /\ UNCHANGED <<sleep, pc, items_list, batch_size, i, points, attempt, response,
                   total_uploaded, add_calls, verify_calls, validations,
                   inflight, store, trace, logged, exc>>

\* everything after the entry of upload_documents, and the store
NextBody ==
    \/ loop_batch
    \/ loop_exit
    \/ put_send
    \/ put_recv
    \/ backoff
    \/ after_upload
    \/ get_recv
    \/ \E reply \in PutReplies, applied \in BOOLEAN : qdrant_put(reply, applied)
    \/ \E reply \in GetReplies : qdrant_get(reply)

Next ==
    \/ \E items \in ItemLists, bs \in BatchSizes : upload_documents(items, bs)
    \/ NextBody

Spec == Init /\ [][Next]_vars

\* ----------------------------------------- upload_documents of an iterable
\* items_list = list(items) if not isinstance(items, list) else items: a one-
\* pass iterable is read to its end, once, before the range is built.
upload_documents_iterable_twice(items, bs) ==
    /\ pc = "idle"
    /\ source = NoSource
    /\ LET first == list(Iterable(items))
           second == list(first.source)
       IN  /\ items_list' = second.list
           /\ source' = second.source
    /\ passes' = 2
    /\ batch_size' = bs
    /\ i' = 0
    /\ total_uploaded' = 0
    /\ IF bs = 0
       THEN /\ pc' = "raised"
            /\ exc' = "ValueError"
       ELSE /\ pc' = "loop"
            /\ exc' = exc
    /\ UNCHANGED <<sleep, points, attempt, response, add_calls, verify_calls,
                   validations, inflight, wire, store, trace, logged>>
    /\ UNCHANGED <<opVars, concVars, nodeVars, flowVars>>

upload_documents_iterable(items, bs) ==
    /\ pc = "idle"
    /\ source = NoSource
    /\ items_list' = list(Iterable(items)).list
    /\ source' = list(Iterable(items)).source
    /\ passes' = 1
    /\ batch_size' = bs
    /\ i' = 0
    /\ total_uploaded' = 0
    /\ IF bs = 0
       THEN /\ pc' = "raised"
            /\ exc' = "ValueError"
       ELSE /\ pc' = "loop"
            /\ exc' = exc
    /\ UNCHANGED <<sleep, points, attempt, response, add_calls, verify_calls,
                   validations, inflight, wire, store, trace, logged>>
    /\ UNCHANGED <<opVars, concVars, nodeVars, flowVars>>

NextIter ==
    \/ \E items \in IterLists, bs \in BatchSizes :
          upload_documents_iterable(items, bs)
    \/ NextBody

SpecIter == Init /\ [][NextIter]_vars

\* ------------------------------------------------------- other operations
\* A client method is called: its first request goes out within the call.
StartOp(name, arg, requests) ==
    /\ pc = "idle"
    /\ op_pc = "idle"
    /\ op_name' = name
    /\ op_arg' = arg
    /\ op_requests' = requests
    /\ op_pc' = "await"
    /\ UNCHANGED <<config, collections, op_wire, op_result, op_exc>>
    /\ UNCHANGED nonOpVars

\* The awaited request is answered and the method ends: it returns
\* `result` or raises `exception`.
FinishOp(name, exception, result) ==
    /\ op_name = name
    /\ op_pc = "await"
    /\ op_wire # NoOpReply
    /\ IF exception = NoVal
       THEN /\ op_pc' = "returned"
            /\ op_result' = result
            /\ op_exc' = NoVal
       ELSE /\ op_pc' = "raised"
            /\ op_exc' = exception
            /\ op_result' = NoResult
    /\ UNCHANGED <<config, collections, op_name, op_arg, op_requests, op_wire>>
    /\ UNCHANGED nonOpVars

\* create_collection: PUT /collections/{name}
create_collection_call == StartOp("create_collection", NoArg, 1)

\* raise_for_status, response.json(), then
\* response_data["status"].startswith("Wrong input: Collection")
StatusIsObject(reply) == reply.status \in {"object:error", "object:already exists"}

CreateExceptionNoStatusCheck(reply) ==
    IF reply.transport = "fail" THEN "ClientConnectionError"
    ELSE IF ~reply.json THEN "ContentTypeError"
    ELSE IF reply.status = NoVal THEN "KeyError"
    ELSE IF StatusIsObject(reply) THEN "AttributeError"
    ELSE NoVal
CreateException(reply) ==
    IF reply.transport = "fail" THEN "ClientConnectionError"
    ELSE IF reply.http # "2xx" THEN "ClientResponseError"
    ELSE IF ~reply.json THEN "ContentTypeError"
    ELSE IF reply.status = NoVal THEN "KeyError"
    ELSE IF StatusIsObject(reply) THEN "AttributeError"
    ELSE NoVal

create_collection_recv ==
    FinishOp("create_collection", CreateException(op_wire), NoResult)

\* get_collection_info: GET /collections/{name}, raise_for_status, json
get_collection_info_call == StartOp("get_collection_info", NoArg, 1)

get_collection_info_recv ==
    FinishOp("get_collection_info", VerifyException(op_wire),
             Result(op_wire, <<>>, NoItem))

\* _verify_batch called on its own
_verify_batch_call(point_id) ==
    StartOp("_verify_batch", OpArg(NoItem, <<>>, point_id), 1)

_verify_batch_recv ==
    FinishOp("_verify_batch", VerifyException(op_wire),
             Result(op_wire, <<>>, NoItem))

\* dense_search: POST .../points/search, return await response.json()
dense_search_call_sets_headers ==
    /\ pc = "idle"
    /\ op_pc = "idle"
    /\ op_name' = "dense_search"
    /\ op_arg' = NoArg
    /\ op_requests' = 1
    /\ op_pc' = "await"
    /\ config' = [config EXCEPT !.headers = "content-type, api-key, accept"]
    /\ UNCHANGED <<collections, op_wire, op_result, op_exc>>
    /\ UNCHANGED nonOpVars

dense_search_call == StartOp("dense_search", NoArg, 1)

SearchException(reply) ==
    IF reply.transport = "fail" THEN "ClientConnectionError"
    ELSE IF ~reply.json THEN "ContentTypeError"
    ELSE NoVal

dense_search_recv_retrying ==
    /\ op_name = "dense_search"
    /\ op_pc = "await"
    /\ op_wire # NoOpReply
    /\ IF SearchException(op_wire) = NoVal
       THEN /\ op_pc' = "returned"
            /\ op_result' = Result(op_wire, <<>>, NoItem)
            /\ UNCHANGED <<op_exc, op_requests, op_wire>>
       ELSE IF op_requests < MaxAttempts
       THEN /\ op_requests' = op_requests + 1
            /\ op_wire' = NoOpReply
            /\ UNCHANGED <<op_pc, op_result, op_exc>>
       ELSE /\ op_pc' = "raised"
            /\ op_exc' = "RetryError"
            /\ UNCHANGED <<op_result, op_requests, op_wire>>
    /\ UNCHANGED <<config, collections, op_name, op_arg>>
    /\ UNCHANGED nonOpVars

dense_search_recv ==
    FinishOp("dense_search", SearchException(op_wire),
             Result(op_wire, <<>>, NoItem))

\* batch_queries: POST .../points/search/batch, results = await resp.json(),
\* then zip(query_vectors, results["result"])
batch_queries_call_skip_empty(query_vectors) ==
    IF query_vectors = <<>>
    THEN /\ pc = "idle"
         /\ op_pc = "idle"
         /\ op_name' = "batch_queries"
         /\ op_arg' = OpArg(NoItem, query_vectors, NoVal)
         /\ op_requests' = 0
         /\ op_pc' = "returned"
         /\ UNCHANGED <<config, collections, op_wire, op_result, op_exc>>
         /\ UNCHANGED nonOpVars
    ELSE StartOp("batch_queries", OpArg(NoItem, query_vectors, NoVal), 1)

batch_queries_call(query_vectors) ==
    StartOp("batch_queries", OpArg(NoItem, query_vectors, NoVal), 1)

BatchException(reply) ==
    IF SearchException(reply) # NoVal THEN SearchException(reply)
    ELSE IF ~reply.has_result THEN "KeyError"
    ELSE NoVal

ZipReversed(query_vectors, results) ==
    [k \in 1 .. Min(Len(query_vectors), Len(results)) |->
        [query |-> query_vectors[k].label,
         results |-> results[Min(Len(query_vectors), Len(results)) + 1 - k]]]
Zip(query_vectors, results) ==
    [k \in 1 .. Min(Len(query_vectors), Len(results)) |->
        [query |-> query_vectors[k].label, results |-> results[k]]]

batch_queries_recv ==
    FinishOp("batch_queries", BatchException(op_wire),
             Result(NoOpReply, Zip(op_arg.queries, op_wire.result), NoItem))

\* verify_upload: await self.get_collection_info(), then POST .../points/scroll
\* and response.json() with no status check; returns None.
Body(present, limit, with_vectors, with_payload) ==
    [present |-> present, limit |-> limit, with_vectors |-> with_vectors,
     with_payload |-> with_payload]
NoBody == Body(FALSE, 0, FALSE, FALSE)
Request(method, path, body) == [method |-> method, path |-> path, body |-> body]

InfoRequest == Request("GET", "/collections/{name}", NoBody)
ScrollRequestWithVectors(cfg) ==
    Request("POST", "/collections/{name}/points/scroll",
            Body(TRUE, cfg.sample_for_verification_size, TRUE, TRUE))
ScrollRequest(cfg) ==
    Request("POST", "/collections/{name}/points/scroll",
            Body(TRUE, cfg.sample_for_verification_size, FALSE, TRUE))

\* the requests a call of get_collection_info or verify_upload has issued
\* when it has issued n
read_requests(name, n, cfg) ==
    IF name = "verify_upload"
    THEN SubSeq(<<InfoRequest, ScrollRequest(cfg)>>, 1, n)
    ELSE SubSeq(<<InfoRequest>>, 1, n)

verify_upload_call == StartOp("verify_upload", NoArg, 1)

verify_upload_info_recv ==
    /\ op_name = "verify_upload"
    /\ op_pc = "await"
    /\ op_requests = 1
    /\ op_wire # NoOpReply
    /\ IF VerifyException(op_wire) = NoVal
       THEN /\ op_requests' = 2
            /\ op_wire' = NoOpReply
            /\ UNCHANGED <<op_pc, op_exc>>
       ELSE /\ op_pc' = "raised"
            /\ op_exc' = VerifyException(op_wire)
            /\ UNCHANGED <<op_requests, op_wire>>
    /\ UNCHANGED <<config, collections, op_name, op_arg, op_result>>
    /\ UNCHANGED nonOpVars

verify_upload_scroll_recv ==
    /\ op_requests = 2
    /\ FinishOp("verify_upload", SearchException(op_wire), NoResult)

\* _verify_points called on its own: no request, it returns or raises at once
_verify_points_call(item) ==
    /\ pc = "idle"
    /\ op_pc = "idle"
    /\ op_name' = "_verify_points"
    /\ op_arg' = OpArg(item, <<>>, NoVal)
    /\ op_requests' = 0
    /\ IF _verify_points(item).raised
       THEN /\ op_pc' = "raised"
            /\ op_exc' = "ValidationError"
            /\ op_result' = NoResult
       ELSE /\ op_pc' = "returned"
            /\ op_exc' = NoVal
            /\ op_result' = Result(NoOpReply, <<>>, _verify_points(item).value)
    /\ UNCHANGED <<config, collections, op_wire>>
    /\ UNCHANGED nonOpVars

\* The caller has the outcome and the client is free for the next call.
op_return ==
    /\ op_pc \in {"returned", "raised"}
    /\ op_name' = NoVal
    /\ op_pc' = "idle"
    /\ op_arg' = NoArg
    /\ op_requests' = 0
    /\ op_wire' = NoOpReply
    /\ op_result' = NoResult
    /\ op_exc' = NoVal
    /\ UNCHANGED <<config, collections>>
    /\ UNCHANGED nonOpVars

\* The store answers PUT /collections/{name}: it creates the collection
\* when there is none, and reports the conflict when there is one.
qdrant_create(reply, applied) ==
    /\ op_name = "create_collection"
    /\ op_pc = "await"
    /\ op_wire = NoOpReply
    /\ reply = CreateOk => (collections = 0 /\ applied)
    /\ reply \in {CreateExists2xx, CreateExistsConflict} => collections > 0
    /\ collections' = IF applied /\ collections = 0 THEN 1 ELSE collections
    /\ op_wire' = reply
    /\ UNCHANGED <<config, op_name, op_pc, op_arg, op_requests, op_result, op_exc>>
    /\ UNCHANGED nonOpVars

\* The store answers a read-only request (collection info, point lookup,
\* search, batch search).
qdrant_read(reply) ==
    /\ op_name \in {"get_collection_info", "_verify_batch", "dense_search",
                    "batch_queries", "verify_upload"}
    /\ op_pc = "await"
    /\ op_wire = NoOpReply
    /\ reply \in (IF op_name \in {"dense_search", "batch_queries"}
                  THEN SearchReplies ELSE ReadReplies)
    /\ op_wire' = reply
    /\ UNCHANGED <<config, collections, op_name, op_pc, op_arg, op_requests,
                   op_result, op_exc>>
    /\ UNCHANGED nonOpVars

NextOps ==
    \/ create_collection_call
    \/ create_collection_recv
    \/ get_collection_info_call
    \/ get_collection_info_recv
    \/ \E point_id \in {"a", "b"} : _verify_batch_call(point_id)
    \/ _verify_batch_recv
    \/ dense_search_call
    \/ dense_search_recv
    \/ \E query_vectors \in QueryLists : batch_queries_call(query_vectors)
    \/ batch_queries_recv
    \/ \E item \in RawItems : _verify_points_call(item)
    \/ verify_upload_call
    \/ verify_upload_info_recv
    \/ verify_upload_scroll_recv
    \/ op_return
    \/ \E reply \in CreateReplies, applied \in BOOLEAN : qdrant_create(reply, applied)
    \/ \E reply \in SearchReplies \cup ReadReplies : qdrant_read(reply)

SpecOps == Init /\ [][NextOps]_vars

\* every operation of the client, one call at a time
NextClient ==
    \/ op_pc = "idle" /\ Next
    \/ NextOps

SpecClient == Init /\ [][NextClient]_vars

\* ------------------------------------- concurrent upload_documents calls
\* A coroutine runs without interruption from one await to the next; the
\* actions below are the stretches between the awaits of one call.
frame_batch_items(fr) ==
    SubSeq(fr.items, fr.i + 1,
           IF fr.i + fr.bs < Len(fr.items) THEN fr.i + fr.bs ELSE Len(fr.items))

frame_in_range(fr) == fr.bs > 0 /\ fr.i < Len(fr.items)

\* loop head up to the first await of the batch: slice, validate, send the
\* first attempt; or leave the loop
enter_batch(fr) ==
    IF ~frame_in_range(fr) THEN [fr EXCEPT !.pc = "returned"]
    ELSE LET batch == frame_batch_items(fr)
         IN  IF \E j \in 1 .. Len(batch) : _verify_points(batch[j]).raised
             THEN [fr EXCEPT !.pc = "raised", !.exc = "ValidationError"]
             ELSE [fr EXCEPT !.pc = "await_put", !.attempt = 1,
                             !.sent = Append(@, PutRequest(
                                 [j \in 1 .. Len(batch) |->
                                      _verify_points(batch[j]).value], 1))]

\* the attempt number of the retry state of call c
attempt_number_shared(fs, c) == fs[1].attempt + fs[2].attempt
attempt_number(fs, c) == fs[c].attempt

conc_upload_documents(c, items, bs) ==
    /\ frames[c].pc = "idle"
    /\ frames' = [frames EXCEPT ![c] =
           IF bs = 0
           THEN Frame("raised", items, bs, 0, 0, 0, <<>>, <<>>, "ValueError")
           ELSE enter_batch(Frame("loop", items, bs, 0, 0, 0, <<>>, <<>>, NoVal))]
    /\ UNCHANGED nonConcVars

conc_put_recv(c, reply) ==
    /\ frames[c].pc = "await_put"
    /\ LET fr == [frames[c] EXCEPT !.replies = Append(@, reply)]
       IN  frames' = [frames EXCEPT ![c] =
               IF ~AttemptRaises(reply)
               THEN [fr EXCEPT !.pc = "await_get",
                               !.total = @ + Len(frame_batch_items(fr))]
               ELSE IF attempt_number(frames, c) < MaxAttempts
               THEN [fr EXCEPT !.pc = "backoff"]
               ELSE [fr EXCEPT !.pc = "raised", !.exc = "RetryError"]]
    /\ UNCHANGED nonConcVars

conc_backoff(c) ==
    /\ frames[c].pc = "backoff"
    /\ frames' = [frames EXCEPT ![c] =
           [@ EXCEPT !.pc = "await_put", !.attempt = @ + 1,
                     !.sent = Append(@, PutRequest(frame_batch_items(frames[c]),
                                                   frames[c].attempt + 1))]]
    /\ UNCHANGED nonConcVars

conc_get_recv(c, reply) ==
    /\ frames[c].pc = "await_get"
    /\ LET fr == [frames[c] EXCEPT !.replies = Append(@, reply)]
       IN  frames' = [frames EXCEPT ![c] =
               IF VerifyException(reply) = NoVal
               THEN enter_batch([fr EXCEPT !.i = @ + fr.bs])
               ELSE [fr EXCEPT !.pc = "raised", !.exc = VerifyException(reply)]]
    /\ UNCHANGED nonConcVars

NextConc ==
    \/ \E c \in Calls, bs \in BatchSizes :
          \E items \in ConcInputs(c) : conc_upload_documents(c, items, bs)
    \/ \E c \in Calls, reply \in ConcPutReplies : conc_put_recv(c, reply)
    \/ \E c \in Calls : conc_backoff(c)
    \/ \E c \in Calls, reply \in ConcGetReplies : conc_get_recv(c, reply)

SpecConc == Init /\ [][NextConc]_vars

\* ------------------------------------------------ upload_points_to_qdrant
\* async with aiohttp.ClientSession() as session: the session is opened, the
\* client is built on it, and create_collection is the first call.
node_open ==
    /\ node_pc = "start"
    /\ pc = "idle"
    /\ op_pc = "idle"
    /\ session = "none"
    /\ session' = "open"
    /\ node_pc' = "create"
    /\ UNCHANGED <<node_status, node_error>>
    /\ UNCHANGED <<uploadVars, opVars, concVars, iterVars, flowVars>>

node_create_collection ==
    /\ node_pc = "create"
    /\ create_collection_call

\* create_collection is over: its exception goes to the except block, which
\* records the error and returns from inside the async with, closing the
\* session; otherwise upload_documents is next.
node_after_create_leaks ==
    /\ node_pc = "create"
    /\ op_name = "create_collection"
    /\ op_pc \in {"returned", "raised"}
    /\ IF op_pc = "raised"
       THEN /\ node_status' = "error uploading documents to Qdrant collection"
            /\ node_error' = op_exc
            /\ node_pc' = "done"
            /\ UNCHANGED session
       ELSE /\ node_pc' = "upload"
            /\ UNCHANGED <<session, node_status, node_error>>
    /\ UNCHANGED <<uploadVars, opVars, concVars, iterVars, flowVars>>

node_after_create ==
    /\ node_pc = "create"
    /\ op_name = "create_collection"
    /\ op_pc \in {"returned", "raised"}
    /\ IF op_pc = "raised"
       THEN /\ node_status' = "error uploading documents to Qdrant collection"
            /\ node_error' = op_exc
            /\ session' = "closed"
            /\ node_pc' = "done"
       ELSE /\ node_pc' = "upload"
            /\ UNCHANGED <<session, node_status, node_error>>
    /\ UNCHANGED <<uploadVars, opVars, concVars, iterVars, flowVars>>

node_upload_documents(items) ==
    /\ node_pc = "upload"
    /\ upload_documents(items, NodeBatchSize)

node_upload_step ==
    /\ node_pc = "upload"
    /\ NextBody

\* upload_documents is over: the status is set and the node returns; leaving
\* the async with block closes the session on both paths.
node_after_upload_always_success ==
    /\ node_pc = "upload"
    /\ pc \in {"returned", "raised"}
    /\ node_status' = "successfully uploaded documents"
    /\ node_error' = node_error
    /\ session' = "closed"
    /\ node_pc' = "done"
    /\ UNCHANGED <<uploadVars, opVars, concVars, iterVars, flowVars>>

node_after_upload ==
    /\ node_pc = "upload"
    /\ pc \in {"returned", "raised"}
    /\ node_status' = IF pc = "raised"
                      THEN "error uploading documents to Qdrant collection"
                      ELSE "successfully uploaded documents"
    /\ node_error' = IF pc = "raised" THEN exc ELSE node_error
    /\ session' = "closed"
    /\ node_pc' = "done"
    /\ UNCHANGED <<uploadVars, opVars, concVars, iterVars, flowVars>>

NodeBody ==
    \/ node_create_collection
    \/ create_collection_recv
    \/ \E reply \in CreateReplies, applied \in BOOLEAN : qdrant_create(reply, applied)
    \/ node_after_create
    \/ \E items \in ItemLists : node_upload_documents(items)
    \/ node_upload_step
    \/ node_after_upload

NextNode ==
    \/ node_open
    \/ NodeBody

SpecNode == Init /\ [][NextNode]_vars

\* ------------------------------------- self_reflecting_stategraph_factory
\* the constructor called on a node list, with or without router function
build_graph(node_functions, router_function) ==
    /\ graph_pc = "idle"
    /\ graph = NoGraph
    /\ graph' = self_reflecting_stategraph_factory_constructor(node_functions,
                                                               router_function)
    /\ graph_pc' = IF graph'.raised THEN "raised" ELSE "built"
    /\ UNCHANGED <<state, decision, runs, llm_calls>>
    /\ UNCHANGED <<uploadVars, opVars, concVars, iterVars, nodeVars,
                   routeVars, encodeVars>>

NextConstructor ==
    \E node_functions \in NodeLists, router_function \in BOOLEAN :
        build_graph(node_functions, router_function)

SpecConstructor == Init /\ [][NextConstructor]_vars

\* ---------------------------------------------------------- the workflow
\* where the run goes after node n: to the router when n has conditional
\* edges, along its edge otherwise; a node called on its own returns
After(g, n) ==
    IF \E b \in g.branches : b[1] = n THEN "evaluator_router"
    ELSE IF \E e \in g.edges : e[1] = n
         THEN CHOOSE t \in {e[2] : e \in g.edges} : <<n, t>> \in g.edges
         ELSE "returned"

Ran(n) == [runs EXCEPT ![n] = @ + 1]

otherVars == <<uploadVars, opVars, concVars, iterVars, nodeVars,
               routeVars, encodeVars>>

\* upload_docx: the initial state, the graph of NODES_FUNCS with
\* evaluator_router, and stategraph_run
upload_docx ==
    /\ graph_pc = "idle"
    /\ graph = NoGraph
    /\ graph' = self_reflecting_stategraph_factory_constructor(NODES_FUNCS, TRUE)
    /\ state' = initial_state
    /\ graph_pc' = After(graph', START)
    /\ UNCHANGED <<decision, runs, llm_calls>>
    /\ UNCHANGED otherVars

\* a node function, or the router, called on a state outside any graph
call_node(n, s) ==
    /\ graph_pc = "idle"
    /\ graph = NoGraph
    /\ state' = s
    /\ graph_pc' = n
    /\ UNCHANGED <<graph, decision, runs, llm_calls>>
    /\ UNCHANGED otherVars

document_parser ==
    /\ graph_pc = "document_parser"
    /\ state' = parse_wordformat_document(state)
    /\ runs' = Ran("document_parser")
    /\ graph_pc' = After(graph, "document_parser")
    /\ UNCHANGED <<graph, decision, llm_calls>>
    /\ UNCHANGED otherVars

qa_generator(llm) ==
    /\ graph_pc = "qa_generator"
    /\ state' = qa_generator_node(state, llm)
    /\ llm_calls' = IF CallsLlm(state) THEN llm_calls + 1 ELSE llm_calls
    /\ runs' = Ran("qa_generator")
    /\ graph_pc' = After(graph, "qa_generator")
    /\ UNCHANGED <<graph, decision>>
    /\ UNCHANGED otherVars

evaluator(llm) ==
    /\ graph_pc = "evaluator"
    /\ state' = evaluator_node(state, llm)
    /\ llm_calls' = IF CallsLlm(state) THEN llm_calls + 1 ELSE llm_calls
    /\ runs' = Ran("evaluator")
    /\ graph_pc' = After(graph, "evaluator")
    /\ UNCHANGED <<graph, decision>>
    /\ UNCHANGED otherVars

\* the conditional edge: the router's return value is looked up in the
\* path map; a value that is no key of it ends the run with an exception
route ==
    /\ graph_pc = "evaluator_router"
    /\ decision' = evaluator_router(state)
    /\ graph_pc' =
          IF graph.branches = {} THEN "returned"
          ELSE IF \E b \in graph.branches : b[2] = decision'
               THEN CHOOSE t \in {b[3] : b \in graph.branches} :
                        \E b \in graph.branches : b[2] = decision' /\ b[3] = t
               ELSE "raised"
    /\ UNCHANGED <<graph, state, runs, llm_calls>>
    /\ UNCHANGED otherVars

qa_refiner(llm) ==
    /\ graph_pc = "qa_refiner"
    /\ state' = qa_refiner_node(state, llm)
    /\ llm_calls' = IF CallsLlm(state) THEN llm_calls + 1 ELSE llm_calls
    /\ runs' = Ran("qa_refiner")
    /\ graph_pc' = After(graph, "qa_refiner")
    /\ UNCHANGED <<graph, decision>>
    /\ UNCHANGED otherVars

conform_points ==
    /\ graph_pc = "conform_points_to_qdrant"
    /\ state' = conform_points_to_qdrant(state)
    /\ runs' = Ran("conform_points_to_qdrant")
    /\ graph_pc' = After(graph, "conform_points_to_qdrant")
    /\ UNCHANGED <<graph, decision, llm_calls>>
    /\ UNCHANGED otherVars

\* upload_points_to_qdrant ends before the session is opened: with an error
\* in the state it returns at once; otherwise it raises TypeError when
\* refined_qa is None (state["refined_qa"]["response"]), or the exception
\* of an encode_document call, which asyncio.gather passes on
qdrant_uploader_early(encode_fails) ==
    /\ graph_pc = "qdrant_uploader"
    /\ node_pc = "start"
    /\ state.error # NoVal \/ state.refined_qa = NoVal \/ encode_fails
    /\ runs' = Ran("qdrant_uploader")
    /\ graph_pc' = IF state.error # NoVal
                   THEN After(graph, "qdrant_uploader")
                   ELSE "raised"
    /\ UNCHANGED <<graph, state, decision, llm_calls>>
    /\ UNCHANGED otherVars

\* the entries are conformed and the session is opened
qdrant_uploader_open ==
    /\ graph_pc = "qdrant_uploader"
    /\ state.error = NoVal
    /\ state.refined_qa # NoVal
    /\ node_open

\* create_collection and upload_documents inside the session
qdrant_uploader_step ==
    /\ graph_pc = "qdrant_uploader"
    /\ NodeBody

\* the node returns the state with the status and error it has written
qdrant_uploader_return ==
    /\ graph_pc = "qdrant_uploader"
    /\ node_pc = "done"
    /\ state' = [state EXCEPT !.status = node_status, !.error = node_error]
    /\ runs' = Ran("qdrant_uploader")
    /\ graph_pc' = After(graph, "qdrant_uploader")
    /\ UNCHANGED <<graph, decision, llm_calls>>
    /\ UNCHANGED otherVars

LlmOutcomes == {"generated", LlmRaises}

NextNodes ==
    \/ document_parser
    \/ \E llm \in LlmOutcomes : qa_generator(llm)
    \/ \E llm \in Evaluations \cup {LlmRaises} : evaluator(llm)
    \/ route
    \/ \E llm \in LlmOutcomes : qa_refiner(llm)
    \/ conform_points
    \/ \E encode_fails \in BOOLEAN : qdrant_uploader_early(encode_fails)
    \/ qdrant_uploader_open
    \/ qdrant_uploader_step
    \/ qdrant_uploader_return

\* the workflow as upload_docx runs it
NextWorkflow ==
    \/ upload_docx
    \/ NextNodes

SpecWorkflow == Init /\ [][NextWorkflow]_vars

\* the scheduler runs every node that is ready and every reply arrives
FairSpecWorkflow == SpecWorkflow /\ WF_vars(NextWorkflow)

\* every node function and the router, each called once on any state
NextCalls ==
    \/ \E n \in NodeNames \cup {"evaluator_router"}, s \in StartStates :
          call_node(n, s)
    \/ NextNodes

SpecCalls == Init /\ [][NextCalls]_vars


\* ------------------------------------------------ FastApiFramework.add_route
valid_methods == {"GET", "POST", "PUT", "DELETE", "PATCH", "HEAD", "OPTIONS", "TRACE"}

\* the arguments add_route is called with
Paths == {"", "/test"}
Endpoints == {"handler", NoVal}
MethodLists == SeqsUpTo({"GET", "TRACE", "INVALID"}, MaxMethods)
StatusCodes == {-1, 0, 99, 100, 200, 599, 600, 9999}

Route(path, methods, status_code) ==
    [path |-> path, methods |-> methods, status_code |-> status_code]

\* the checks that raise ValueError, in their order; the status code is
\* tested only when it is truthy
add_route_raises(path, endpoint, methods, status_code) ==
    \/ path = ""
    \/ methods = <<>>
    \/ endpoint = NoVal
    \/ {methods[k] : k \in DOMAIN methods} \ valid_methods # {}
    \/ status_code # 0 /\ (status_code < 100 \/ status_code >= 600)

add_route(path, endpoint, methods, status_code) ==
    /\ Len(routes) < MaxRoutes
    /\ IF add_route_raises(path, endpoint, methods, status_code)
       THEN /\ route_exc' = "ValueError"
            /\ UNCHANGED routes
       ELSE /\ routes' = Append(routes, Route(path, methods, status_code))
            /\ route_exc' = NoVal
    /\ UNCHANGED <<uploadVars, opVars, concVars, iterVars, nodeVars,
                   graphVars, encodeVars>>

NextRoutes ==
    \E path \in Paths, endpoint \in Endpoints, methods \in MethodLists,
       status_code \in StatusCodes :
        add_route(path, endpoint, methods, status_code)

SpecRoutes == Init /\ [][NextRoutes]_vars

\* ------------------------------------- upload_points_to_qdrant: encoding
\* the question-answer pairs of state["refined_qa"]["response"]
QaPool == {[text |-> "q1", answer |-> "a1"], [text |-> "q2", answer |-> "a2"]}
QaSets == SeqsUpTo(QaPool, MaxDocs)

\* encode_document: the embedding the endpoint returns for the text
NoVector == [embedding |-> NoVal]
encode_document(doc) == [embedding |-> doc]

\* docs_to_encode = [doc["text"] for doc in ...]
docs_to_encode(prepared) == [j \in DOMAIN prepared |-> prepared[j].text]

\* asyncio.gather: the results in the order of its arguments
gather_as_completed(results, completion) ==
    [j \in DOMAIN completion |-> results[completion[j]]]
gather(results, completion) == results

\* the zip of the vectors with the dictionaries, and the entry built of each
conform(encoded_docs, prepared) ==
    [j \in 1 .. Min(Len(encoded_docs), Len(prepared)) |->
        [id |-> j, vector |-> encoded_docs[j],
         payload |-> [text |-> prepared[j].text, answer |-> prepared[j].answer,
                      category |-> prepared[j].category]]]

\* the generators are built and gather starts one encode call per text
node_prepare(qa) ==
    /\ enc_pc = "idle"
    /\ prepared_collection' =
          [j \in DOMAIN qa |-> [text |-> qa[j].text, answer |-> qa[j].answer,
                                category |-> "general"]]
    /\ encoded' = [j \in DOMAIN qa |-> NoVector]
    /\ finished' = <<>>
    /\ enc_pc' = "gather"
    /\ UNCHANGED conformed_collection
    /\ UNCHANGED <<uploadVars, opVars, concVars, iterVars, nodeVars,
                   graphVars, routeVars>>

\* an encode call that is still running returns its vector
encode_document_return(j) ==
    /\ enc_pc = "gather"
    /\ j \in DOMAIN encoded
    /\ encoded[j] = NoVector
    /\ encoded' = [encoded EXCEPT ![j] = encode_document(docs_to_encode(prepared_collection)[j])]
    /\ finished' = Append(finished, j)
    /\ UNCHANGED <<enc_pc, prepared_collection, conformed_collection>>
    /\ UNCHANGED <<uploadVars, opVars, concVars, iterVars, nodeVars,
                   graphVars, routeVars>>

\* an encode call raises: gather passes the exception on and the node raises
encode_document_raise(j) ==
    /\ enc_pc = "gather"
    /\ j \in DOMAIN encoded
    /\ encoded[j] = NoVector
    /\ enc_pc' = "raised"
    /\ UNCHANGED <<prepared_collection, encoded, finished, conformed_collection>>
    /\ UNCHANGED <<uploadVars, opVars, concVars, iterVars, nodeVars,
                   graphVars, routeVars>>

\* every encode call has returned: gather returns and the entries are built
gather_return ==
    /\ enc_pc = "gather"
    /\ Len(finished) = Len(encoded)
    /\ conformed_collection' = conform(gather(encoded, finished), prepared_collection)
    /\ enc_pc' = "conformed"
    /\ UNCHANGED <<prepared_collection, encoded, finished>>
    /\ UNCHANGED <<uploadVars, opVars, concVars, iterVars, nodeVars,
                   graphVars, routeVars>>

\* the session of the upload is opened after the entries are built
node_open_conformed ==
    /\ enc_pc = "conformed"
    /\ node_open

NextEncode ==
    \/ \E qa \in QaSets : node_prepare(qa)
    \/ \E j \in 1 .. MaxDocs : encode_document_return(j)
    \/ \E j \in 1 .. MaxDocs : encode_document_raise(j)
    \/ gather_return
    \/ node_open_conformed

SpecEncode == Init /\ [][NextEncode]_vars

TypeOK ==
    /\ pc \in {"idle", "loop", "put_send", "await_put", "backoff", "uploaded",
               "await_get", "returned", "raised"}
    /\ items_list \in ItemLists
    /\ batch_size \in BatchSizes \cup {NodeBatchSize}
    /\ sleep \in 0 .. WaitMax
    /\ session \in {"none", "open", "closed"}
    /\ node_pc \in {"start", "create", "upload", "done"}
    /\ graph_pc \in NodeNames \cup {"idle", "built", "evaluator_router", "returned",
                                     "raised", END}
    /\ decision \in {NoVal, RETRY, CORRECT, MAX_RETRY, "state"}
    /\ enc_pc \in {"idle", "gather", "conformed", "raised"}
    /\ Len(routes) <= MaxRoutes
    /\ passes \in {0, 1}
    /\ attempt \in 0 .. MaxAttempts
    /\ store \subseteq {it.id : it \in ItemPool}

\* ------------------------------------------------------- trace vocabulary
Positions == DOMAIN trace

Puts(k) == {p \in Positions : trace[p].ev = "put" /\ trace[p].batch = k}
Gets(k) == {p \in Positions : trace[p].ev = "get" /\ trace[p].batch = k}

\* the reply is a JSON body delivered by the transport
IsJsonBody(reply) == reply.transport = "ok" /\ reply.json

\* first and last position (1-based) of batch k in the input
BatchFirst(k) == (k - 1) * batch_size + 1
BatchLast(k) == Min(k * batch_size, Len(items_list))

\* ------------------------------------------------------------------- C1
\* C1: when the third attempt of the upload of batch k has failed,
\* upload_documents has raised (RetryError) and the trace holds no upload
\* and no verify request of any batch after k, in this and every later state.
C1_ExhaustedRetriesAbort ==
    \A p \in Positions :
        (trace[p].ev = "put_reply" /\ trace[p].attempt = 3 /\ trace[p].raised)
        => /\ pc = "raised"
           /\ exc = "RetryError"
           /\ \A q \in Positions : trace[q].batch <= trace[p].batch
           /\ Cardinality(Gets(trace[p].batch)) = 0

\* three failed attempts on a batch that is not the last one
C1_Witness ==
    /\ pc = "raised"
    /\ exc = "RetryError"
    /\ Cardinality(Puts(batch_num)) = 3
    /\ i + batch_size < Len(items_list)

\* ------------------------------------------------------------------- C2
\* C2: when batch k holds an item that fails the schema, no upload request
\* of batch k or of a later batch is ever issued; once the loop reaches
\* batch k the call has raised ValidationError, every item was handed to the
\* validator at most once, and the step that raises issues no request and
\* leaves the store as the earlier batches left it; the store never loses
\* a point.
HasMalformed(k) ==
    \E j \in BatchFirst(k) .. BatchLast(k) : items_list[j] = MalformedEntry

C2_State ==
    batch_size > 0 =>
        \A k \in 1 .. Len(items_list) :
            HasMalformed(k) =>
                /\ \A q \in Positions : trace[q].ev = "put" => trace[q].batch < k
                /\ (i = (k - 1) * batch_size /\ pc \notin {"idle", "loop"})
                   => /\ pc = "raised"
                      /\ exc = "ValidationError"
                      /\ \A a, b \in DOMAIN validations :
                             validations[a] = validations[b] => a = b
                      /\ \A j \in 1 .. k - 1 : Cardinality(Puts(j)) >= 1

C2_Step ==
    /\ store \subseteq store'
    /\ exc' = "ValidationError" => (trace' = trace /\ store' = store /\ inflight' = {})

C2_ValidationAborts == [](C2_State) /\ [][C2_Step]_vars

\* a validation failure in the second batch, after the first was stored
C2_Witness ==
    /\ exc = "ValidationError"
    /\ i > 0
    /\ store # {}
    /\ Cardinality(Puts(1)) >= 1

\* ------------------------------------------------------------------- C3
\* C3: one call of add_points_with_retry issues at most 3 upload requests,
\* numbered 1, 2, ... in order; when attempt n is the first whose reply does
\* not raise, the call returns at that attempt with exactly n requests
\* issued and its return value is the reply of attempt n.
C3_State ==
    \A p \in Positions :
        trace[p].ev = "put" =>
            /\ Cardinality(Puts(trace[p].batch)) <= 3
            /\ trace[p].attempt =
                 Cardinality({q \in Puts(trace[p].batch) : q <= p})

C3_Step ==
    (pc = "await_put" /\ IsJsonBody(wire) /\ pc' # pc)
    => /\ pc' = "uploaded"
       /\ response' = wire
       /\ Cardinality(Puts(batch_num)) = attempt
       /\ Cardinality({q \in Positions :
              trace[q].ev = "put_reply" /\ trace[q].batch = batch_num
              /\ trace[q].raised}) = attempt - 1
       /\ \A q \in Positions : trace'[q] = trace[q]
       /\ \A q \in DOMAIN trace' : trace'[q].ev = "put" => q \in Positions

C3_RetryCount == [](C3_State) /\ [][C3_Step]_vars

\* the call returned on its second attempt
C3_Witness ==
    /\ pc = "uploaded"
    /\ attempt = 2
    /\ Cardinality(Puts(batch_num)) = 2

\* ------------------------------------------------------------------- C4
\* C4: a non-2xx response to the points upload is a failed attempt: the
\* client retries while attempts remain and raises after the third.
C4_Non2xxIsRetried ==
    [][(pc = "await_put" /\ wire.transport = "ok" /\ wire.http = "non2xx"
        /\ pc' # pc)
       => IF attempt < 3
          THEN pc' = "backoff"
          ELSE pc' = "raised" /\ exc' = "RetryError"]_vars

\* ------------------------------------------------------------------- C5
\* C5: a call with n items and batch size b >= 1 that returns has made
\* exactly ceil(n/b) calls of add_points_with_retry and ceil(n/b) calls of
\* _verify_batch (none when n = 0), and raised nothing.
CeilDiv(n, b) == (n + b - 1) \div b

C5_BatchCount ==
    (pc = "returned" /\ batch_size >= 1)
    => /\ add_calls = CeilDiv(Len(items_list), batch_size)
       /\ verify_calls = CeilDiv(Len(items_list), batch_size)
       /\ Cardinality({p \in Positions : trace[p].ev = "put" /\ trace[p].attempt = 1})
            = CeilDiv(Len(items_list), batch_size)
       /\ Cardinality({p \in Positions : trace[p].ev = "get"})
            = CeilDiv(Len(items_list), batch_size)
       /\ exc = NoVal

\* three items in batches of two: two calls of each
C5_Witness ==
    /\ pc = "returned"
    /\ Len(items_list) = 3
    /\ batch_size = 2
    /\ add_calls = 2
    /\ verify_calls = 2

\* ------------------------------------------------------------------- C6
\* C6: the batches sent (first attempts, in the order sent) are consecutive
\* slices of the input: their concatenation is the input up to the last
\* item sent, and the whole input when the call returns (batch size >= 1);
\* no batch is empty or longer than batch_size, and a batch shorter than
\* batch_size ends at the end of the input.
IsFirstPut(e) == e.ev = "put" /\ e.attempt = 1
SentBatches == SelectSeq(trace, IsFirstPut)

RECURSIVE ConcatPoints(_)
ConcatPoints(bs) ==
    IF bs = <<>> THEN <<>> ELSE Head(bs).points \o ConcatPoints(Tail(bs))

C6_ConsecutiveSlices ==
    LET sent == ConcatPoints(SentBatches)
    IN  /\ Len(sent) <= Len(items_list)
        /\ sent = SubSeq(items_list, 1, Len(sent))
        /\ \A j \in DOMAIN SentBatches :
              /\ Len(SentBatches[j].points) >= 1
              /\ Len(SentBatches[j].points) <= batch_size
              /\ SentBatches[j].batch = j
              /\ Len(SentBatches[j].points) < batch_size
                 => (j = Len(SentBatches) /\ Len(sent) = Len(items_list))
        /\ (pc = "returned" /\ batch_size >= 1) => sent = items_list

\* three items went out as a batch of two and a batch of one
C6_Witness ==
    /\ pc = "returned"
    /\ Len(SentBatches) = 2
    /\ Len(SentBatches[1].points) = 2
    /\ Len(SentBatches[2].points) = 1
    /\ SentBatches[1].points[1] # SentBatches[1].points[2]

\* ------------------------------------------------------------------- C7
\* C7: at most one request is outstanding at any time, and every upload
\* request of batch k+1 comes after a returned upload reply and a completed
\* verify lookup of batch k.
C7_Sequential ==
    /\ Cardinality(inflight) <= 1
    /\ \A p \in Positions :
          (trace[p].ev = "put" /\ trace[p].batch > 1)
          => /\ \E q \in 1 .. p - 1 :
                   /\ trace[q].ev = "put_reply"
                   /\ trace[q].batch = trace[p].batch - 1
                   /\ ~trace[q].raised
             /\ \E q \in 1 .. p - 1 :
                   /\ trace[q].ev = "get_reply"
                   /\ trace[q].batch = trace[p].batch - 1
                   /\ ~trace[q].raised
    /\ \A p \in Positions :
          (trace[p].ev \in {"put", "get"} /\ p < Len(trace))
          => /\ trace[p + 1].ev = (IF trace[p].ev = "put" THEN "put_reply" ELSE "get_reply")
             /\ trace[p + 1].batch = trace[p].batch

\* the upload request of the second batch is outstanding
C7_Witness ==
    /\ pc = "await_put"
    /\ batch_size > 0
    /\ batch_num = 2
    /\ Cardinality(inflight) = 1

\* ------------------------------------------------------------------- C8
\* C8: an upload response whose status is not "ok" (or is absent) is
\* returned by add_points_with_retry, not raised; upload_documents then
\* issues the verify lookup of that batch and, when the lookup returns,
\* moves on to the next batch.
C8_Step ==
    /\ (pc = "await_put" /\ IsJsonBody(wire) /\ wire.http = "2xx"
        /\ wire.status # "ok" /\ pc' # pc)
       => (pc' = "uploaded" /\ response' = wire /\ exc' = NoVal)
    /\ (pc = "uploaded" /\ response.status # "ok" /\ pc' # pc)
       => /\ pc' = "await_get"
          /\ exc' = NoVal
          /\ logged'.level = "warning"
          /\ Len(trace') = Len(trace) + 1
          /\ trace'[Len(trace')].ev = "get"
          /\ trace'[Len(trace')].batch = batch_num
    /\ (pc = "await_get" /\ response.status # "ok" /\ IsJsonBody(wire)
        /\ wire.http = "2xx" /\ pc' # pc)
       => (pc' = "loop" /\ exc' = NoVal /\ i' = i + batch_size)

C8_SoftStatusContinues == [][C8_Step]_vars

\* after a non-"ok" upload response of the first batch the second batch is
\* being uploaded
C8_Witness ==
    /\ pc = "await_put"
    /\ batch_size > 0
    /\ batch_num = 2
    /\ \E p \in Positions : trace[p].ev = "get_reply" /\ trace[p].batch = 1
    /\ logged.level = "warning"
    /\ store = {}

\* ------------------------------------------------------------------- C9
\* C9: when the verify lookup answers with no result for a point the store
\* does not hold, upload_documents does not raise: it logs a warning and
\* goes on to the next batch.
C9_Step ==
    (pc = "await_get" /\ IsJsonBody(wire) /\ wire.http = "2xx"
     /\ wire.result = NoVal /\ pc' # pc)
    => /\ pc' = "loop"
       /\ exc' = NoVal
       /\ logged' = Log("warning", "failed to verify first item")
       /\ i' = i + batch_size

C9_MissingPointWarns == [][C9_Step]_vars

\* the first point of batch 1 was not found, batch 2 was uploaded and the
\* call returned
C9_Witness ==
    /\ pc = "returned"
    /\ Len(items_list) = 2
    /\ batch_size = 1
    /\ items_list[1].id \notin store
    /\ Cardinality(Puts(2)) >= 1

\* ------------------------------------------------------------------ C10
\* C10: every verify lookup follows a returned upload reply of its own
\* batch and asks for the id of the first item of that batch; each batch
\* whose upload returned gets exactly one lookup, and no batch gets two.
C10_VerifyFirstOfBatch ==
    /\ \A p \in Positions :
          trace[p].ev = "get"
          => /\ p > 1
             /\ trace[p - 1].ev = "put_reply"
             /\ trace[p - 1].batch = trace[p].batch
             /\ ~trace[p - 1].raised
             /\ trace[p].id = items_list[BatchFirst(trace[p].batch)].id
             /\ \A q \in Puts(trace[p].batch) : trace[p].id = trace[q].points[1].id
             /\ Cardinality(Gets(trace[p].batch)) = 1
    /\ \A p \in Positions :
          (trace[p].ev = "put_reply" /\ ~trace[p].raised)
          => \/ Cardinality(Gets(trace[p].batch)) = 1
             \/ (pc = "uploaded" /\ p = Len(trace))
    /\ verify_calls = Cardinality({p \in Positions : trace[p].ev = "get"})

\* a batch of two different points was uploaded and its first point looked up
C10_Witness ==
    /\ pc = "await_get"
    /\ Len(points) = 2
    /\ points[1].id # points[2].id
    /\ Cardinality(Gets(1)) = 1

\* ------------------------------------------------------------------ C11
\* C11: whenever the store's reply to the create request reports that the
\* collection already exists, create_collection returns without raising.
ReportsAlreadyExists(reply) == reply \in {CreateExists2xx, CreateExistsConflict}

C11_AlreadyExistsTolerated ==
    [][(op_name = "create_collection" /\ op_pc = "await"
        /\ ReportsAlreadyExists(op_wire) /\ op_pc' # op_pc)
       => (op_pc' = "returned" /\ op_exc' = NoVal)]_vars

\* ------------------------------------------------------------------ C12
\* C12: create_collection raises on every transport-level failure that is
\* not an "already exists" report: no response (timeout), a body that is
\* not JSON, or a non-2xx status, which raises ClientResponseError.
C12_Step ==
    (op_name = "create_collection" /\ op_pc = "await" /\ op_wire # NoOpReply
     /\ ~ReportsAlreadyExists(op_wire)
     /\ (op_wire.transport = "fail" \/ ~op_wire.json \/ op_wire.http # "2xx")
     /\ op_pc' # op_pc)
    => /\ op_pc' = "raised"
       /\ op_exc' # NoVal
       /\ (op_wire.transport = "ok" /\ op_wire.http # "2xx")
          => op_exc' = "ClientResponseError"

C12_CreateRaisesOnFailure == [][C12_Step]_vars

\* the 404 of test_created_collection_failure
C12_Witness ==
    /\ op_name = "create_collection"
    /\ op_pc = "raised"
    /\ op_wire = CreateNotFound
    /\ op_exc = "ClientResponseError"

\* ------------------------------------------------------------------ C13
\* C13: when the response carries one result list per query, batch_queries
\* returns a list as long as the query list whose k-th element pairs the
\* label of the k-th query (None when it has none) with the k-th result
\* list of the response.
C13_BatchQueriesZip ==
    (op_name = "batch_queries" /\ op_pc = "returned"
     /\ Len(op_wire.result) = Len(op_arg.queries))
    => /\ Len(op_result.list) = Len(op_arg.queries)
       /\ \A k \in 1 .. Len(op_arg.queries) :
             /\ op_result.list[k].query = op_arg.queries[k].label
             /\ op_result.list[k].results = op_wire.result[k]

\* two queries, the second without a label, and two different result lists
C13_Witness ==
    /\ op_name = "batch_queries"
    /\ op_pc = "returned"
    /\ Len(op_arg.queries) = 2
    /\ op_arg.queries[1].label = "q1"
    /\ op_arg.queries[2].label = NoVal
    /\ op_wire.result = <<"r1", "r2">>
    /\ Len(op_result.list) = 2

\* ------------------------------------------------------------------ C14
\* C14: batch_queries with an empty query list issues exactly one request
\* and, when that request is answered with a JSON body that has a result
\* member, returns the empty list without raising.
C14_EmptyBatch ==
    (op_name = "batch_queries" /\ op_arg.queries = <<>>)
    => /\ op_requests = 1
       /\ (op_pc \in {"returned", "raised"} /\ op_wire.transport = "ok"
           /\ op_wire.json /\ op_wire.has_result)
          => (op_pc = "returned" /\ op_exc = NoVal /\ op_result.list = <<>>)

\* batch_queries([]) answered with {"result": [], "status": "ok"}
C14_Witness ==
    /\ op_name = "batch_queries"
    /\ op_arg.queries = <<>>
    /\ op_pc = "returned"
    /\ op_wire = OpOk(<<>>)
    /\ op_requests = 1

\* ------------------------------------------------------------------ C15
\* C15: dense_search, batch_queries, create_collection, get_collection_info
\* and _verify_batch issue exactly one request per call; the reply to it
\* ends the call, and a reply that raises reaches the caller at once.
SingleShotOps ==
    {"dense_search", "batch_queries", "create_collection",
     "get_collection_info", "_verify_batch"}

C15_State == op_name \in SingleShotOps => op_requests = 1

C15_Step ==
    (op_name \in SingleShotOps /\ op_pc = "await" /\ op_wire # NoOpReply
     /\ op_pc' = op_pc)
    => (op_wire' = op_wire /\ op_requests' = op_requests)

C15_Fail ==
    (op_name \in SingleShotOps /\ op_pc = "await"
     /\ (op_wire.transport = "fail" \/ (op_wire.transport = "ok" /\ ~op_wire.json)))
    => (op_pc' = "raised" /\ op_requests' = 1) \/ UNCHANGED vars

C15_NoRetryOutsideUpload == [](C15_State) /\ [][C15_Step /\ C15_Fail]_vars

\* a search whose only request timed out
C15_Witness ==
    /\ op_name = "dense_search"
    /\ op_pc = "raised"
    /\ op_wire = OpTimeout
    /\ op_requests = 1

\* ------------------------------------------------------------------ C16
\* C16: dense_search and batch_queries return a result only for a request
\* that was answered with a 2xx status.
C16_SearchFailurePropagates ==
    (op_name \in {"dense_search", "batch_queries"} /\ op_pc = "returned")
    => (op_wire.transport = "ok" /\ op_wire.http = "2xx")

\* ------------------------------------------------------------------ C17
\* C17: every point of every upload request has a vector of dense_size
\* floats.
C17_SentVectorsHaveDenseSize ==
    \A p \in Positions :
        trace[p].ev = "put"
        => \A j \in 1 .. Len(trace[p].points) :
              trace[p].points[j].vector.len = config.dense_size

\* ------------------------------------------------------------------ C18
\* C18: _verify_points returns the very item it was given when the item
\* has a string id, a dict vector and a dict payload, and raises
\* ValidationError when id, vector or payload is absent.
SatisfiesSchema(item) ==
    item.id # NoVal /\ item.vector.shape = "dict" /\ item.payload # NoVal
LacksField(item) ==
    item.id = NoVal \/ item.vector.shape = "missing" \/ item.payload = NoVal

C18_VerifyPointsIdentity ==
    (op_name = "_verify_points" /\ op_pc # "idle")
    => /\ SatisfiesSchema(op_arg.item)
          => (op_pc = "returned" /\ op_exc = NoVal /\ op_result.item = op_arg.item)
       /\ LacksField(op_arg.item)
          => (op_pc = "raised" /\ op_exc = "ValidationError")

\* a valid item whose vector is shorter than dense_size came back unchanged
C18_Witness ==
    /\ op_name = "_verify_points"
    /\ op_pc = "returned"
    /\ op_arg.item = ShortEntry("b")
    /\ op_result.item = ShortEntry("b")

\* ------------------------------------------------------------------ C19
\* C19: the configuration of the client is the one given at construction in
\* every state, whatever operations ran and however they ended.
C19_ConfigImmutable == config = InitConfig

\* an upload failed after a collection was created
C19_Witness ==
    /\ pc = "raised"
    /\ collections = 1
    /\ config = InitConfig

\* ------------------------------------------------------------------ C20
\* What one upload_documents call does when it runs alone on the given
\* input and consumes the given replies in order: the requests it sends,
\* the number of points it counts and how it ends.
Outcome(pcv, excv, total, sent) ==
    [pc |-> pcv, exc |-> excv, total |-> total, sent |-> sent]

Slice(items, bs, k) ==
    [j \in 1 .. (IF k * bs <= Len(items) THEN bs ELSE Len(items) - (k - 1) * bs)
        |-> items[(k - 1) * bs + j]]

RECURSIVE AloneBatch(_, _, _, _, _, _)
RECURSIVE AloneAttempt(_, _, _, _, _, _, _)
AloneAttempt(items, bs, k, att, replies, total, sent) ==
    LET batch == Slice(items, bs, k)
        sent1 == Append(sent, PutRequest(batch, att))
    IN  IF replies = <<>> THEN Outcome("running", NoVal, total, sent1)
        ELSE IF Head(replies).transport = "ok" /\ Head(replies).json
        THEN IF Tail(replies) = <<>>
             THEN Outcome("running", NoVal, total + Len(batch), sent1)
             ELSE IF VerifyException(replies[2]) = NoVal
             THEN AloneBatch(items, bs, k + 1, Tail(Tail(replies)),
                             total + Len(batch), sent1)
             ELSE Outcome("raised", VerifyException(replies[2]),
                          total + Len(batch), sent1)
        ELSE IF att < 3
        THEN AloneAttempt(items, bs, k, att + 1, Tail(replies), total, sent1)
        ELSE Outcome("raised", "RetryError", total, sent1)

AloneBatch(items, bs, k, replies, total, sent) ==
    IF bs < 0 \/ (k - 1) * bs >= Len(items)
    THEN Outcome("returned", NoVal, total, sent)
    ELSE IF \E j \in DOMAIN Slice(items, bs, k) :
                ~QdrantValidator(Slice(items, bs, k)[j])
    THEN Outcome("raised", "ValidationError", total, sent)
    ELSE AloneAttempt(items, bs, k, 1, replies, total, sent)

RunAlone(items, bs, replies) ==
    IF bs = 0 THEN Outcome("raised", "ValueError", 0, <<>>)
    ELSE AloneBatch(items, bs, 1, replies, 0, <<>>)

FirstAttempts(sent) == SelectSeq(sent, LAMBDA r : r.attempt = 1)

\* C20: under every interleaving of two upload_documents calls on one
\* client, each call sends only batches of its own input, its k-th new batch
\* being the k-th slice of its own list, makes at most 3 attempts per batch,
\* and ends as it ends alone on the replies it received: same requests, same
\* count, same return or exception.
C20_ConcurrentCallsIndependent ==
    \A c \in Calls :
        LET fr == frames[c]
        IN  /\ \A k \in 1 .. Len(fr.sent) : fr.sent[k].attempt \in 1 .. 3
            /\ \A k \in 1 .. Len(FirstAttempts(fr.sent)) :
                   FirstAttempts(fr.sent)[k].points = Slice(fr.items, fr.bs, k)
            /\ fr.pc \in {"returned", "raised"}
               => Outcome(fr.pc, fr.exc, fr.total, fr.sent)
                      = RunAlone(fr.items, fr.bs, fr.replies)

\* call 1 was retried and call 2 answered in between; call 1 has returned
\* after two batches and call 2 has given up after three attempts
C20_Witness ==
    /\ frames[1].pc = "returned"
    /\ Len(frames[1].items) = 2
    /\ frames[1].bs = 1
    /\ \E k \in 1 .. Len(frames[1].sent) : frames[1].sent[k].attempt = 2
    /\ frames[2].pc = "raised"
    /\ frames[2].exc = "RetryError"
    /\ Len(frames[2].sent) = 3

\* ------------------------------------------------------------------ C23
\* C23: when upload_documents has stopped with an exception, the batches
\* whose points the store holds form a prefix of the batch sequence: a
\* stored batch has every earlier batch stored too.
DistinctIds(items) ==
    \A j, k \in DOMAIN items : j # k => items[j].id # items[k].id

BatchStored(k) == \E p \in Puts(k) : PointIds(trace[p].points) \subseteq store

C23_StoredBatchesArePrefix ==
    (pc = "raised" /\ DistinctIds(items_list))
    => \A k \in 1 .. Len(items_list), j \in 1 .. Len(items_list) :
          (j < k /\ Puts(k) # {} /\ BatchStored(k)) => BatchStored(j)

\* ------------------------------------------------------------------ C25
\* C25: when the store holds the points of the batch just uploaded and
\* answers the lookup that follows with a 2xx JSON body, the lookup asked
\* for the id of the uploaded first point and the answer has a result.
C25_UploadThenLookup ==
    (pc = "await_get" /\ wire # NoReply /\ IsJsonBody(wire)
     /\ wire.http = "2xx" /\ PointIds(points) \subseteq store)
    => /\ wire.result # NoVal
       /\ trace[Len(trace)].ev = "get"
       /\ trace[Len(trace)].id = points[1].id
       /\ \E p \in Puts(trace[Len(trace)].batch) :
             trace[p].points[1].id = trace[Len(trace)].id

\* a batch of two different points is in the store and its lookup is answered
C25_Witness ==
    /\ pc = "await_get"
    /\ wire = GetFound
    /\ Len(points) = 2
    /\ points[1].id # points[2].id
    /\ PointIds(points) \subseteq store

\* ------------------------------------------------------------------ C28
\* C28: a verify lookup of batch k that ends in a connection failure, a
\* non-2xx status or a non-JSON body makes upload_documents raise that
\* exception; batch k is counted as uploaded, the store keeps what it
\* holds, and no request of a batch after k is ever sent.
C28_Step ==
    (pc = "await_get" /\ wire # NoReply /\ pc' # pc
     /\ (wire.transport = "fail" \/ wire.http # "2xx" \/ ~wire.json))
    => /\ pc' = "raised"
       /\ exc' \in {"ClientConnectionError", "ClientResponseError",
                    "ContentTypeError"}
       /\ store' = store
       /\ total_uploaded' = total_uploaded

C28_State ==
    (pc = "raised" /\ trace # <<>> /\ trace[Len(trace)].ev = "get_reply"
     /\ trace[Len(trace)].raised)
    => LET k == trace[Len(trace)].batch
       IN  /\ exc \in {"ClientConnectionError", "ClientResponseError",
                       "ContentTypeError"}
           /\ \A p \in Positions : trace[p].batch <= k
           /\ total_uploaded = BatchLast(k)
           /\ \E p \in Puts(k) : p < Len(trace)

C28_VerifyExceptionAborts == [](C28_State) /\ [][C28_Step]_vars

\* the lookup of the first of two batches got a non-JSON body while the
\* store holds the batch
C28_Witness ==
    /\ pc = "raised"
    /\ exc = "ContentTypeError"
    /\ trace[Len(trace)].ev = "get_reply"
    /\ trace[Len(trace)].raised
    /\ trace[Len(trace)].batch = 1
    /\ Len(items_list) > batch_size
    /\ PointIds(points) \subseteq store

\* ------------------------------------------------------------------ C29
\* C29: when upload_documents has returned, the batches it sent, put end to
\* end, are the whole input list: every item was sent, in one batch each.
C29_ReturnedMeansAllSent ==
    pc = "returned" => ConcatPoints(SentBatches) = items_list

\* ------------------------------------------------------------------ C30
\* C30: all attempts of one batch send the same points with the same ids,
\* and the store, which keeps one entry per id, never holds an id that is
\* not an id of the input.
C30_RetriesResendSamePoints ==
    /\ \A p \in Positions, q \in Positions :
          (trace[p].ev = "put" /\ trace[q].ev = "put"
           /\ trace[p].batch = trace[q].batch)
          => trace[p].points = trace[q].points
    /\ store \subseteq {items_list[j].id : j \in DOMAIN items_list}

\* the second attempt of a batch of two points returned; the store holds
\* the batch
C30_Witness ==
    /\ pc = "uploaded"
    /\ attempt = 2
    /\ Len(points) = 2
    /\ points[1].id # points[2].id
    /\ PointIds(points) \subseteq store
    /\ Cardinality(Puts(1)) = 2

\* ------------------------------------------------------------------ C24
\* C24: every exception upload_documents raises while it works on a batch
\* carries the index of that batch.
C24_ExceptionCarriesBatchIndex ==
    (pc = "raised" /\ exc # "ValueError")
    => "batch_index" \in ExceptionContext(exc)

\* ------------------------------------------------------------------ C27
\* C27: the wait before the second attempt is 1, the wait before the third
\* is twice that, every wait lies between 1 and 10, a wait is taken only
\* between two attempts and none after the third; as a function of the
\* attempt number the wait doubles until it stays at 10.
C27_State ==
    /\ pc = "backoff" => (sleep >= 1 /\ sleep <= 10 /\ attempt < 3)
    /\ (pc = "backoff" /\ attempt = 1) => sleep = 1
    /\ (pc = "backoff" /\ attempt = 2) => sleep = 2
    /\ pc # "backoff" => sleep = 0
    /\ \A n \in 1 .. 6 :
          /\ wait_exponential(n) >= 1
          /\ wait_exponential(n) <= 10
          /\ wait_exponential(n + 1)
               = (IF 2 * wait_exponential(n) < 10
                  THEN 2 * wait_exponential(n) ELSE 10)

C27_Step ==
    (pc = "await_put" /\ attempt = 3 /\ pc' # pc)
    => (pc' \in {"uploaded", "raised"} /\ sleep' = 0)

C27_BackoffDelays == [](C27_State) /\ [][C27_Step]_vars

\* the wrapper waits after the second failed attempt
C27_Witness ==
    /\ pc = "backoff"
    /\ attempt = 2
    /\ sleep = 2

\* ------------------------------------------------------------------ C26
\* C26: once upload_documents has been entered with a one-pass iterable,
\* items_list holds everything the iterable yields, in order, the iterable
\* is at its end and has been iterated exactly once; it is iterated only
\* while no request has been issued.
C26_State ==
    pc # "idle"
    => /\ source.kind = "iterator"
       /\ items_list = source.items
       /\ source.pos = Len(source.items)
       /\ passes = 1

C26_Step ==
    /\ (passes' # passes \/ source' # source) => (trace = <<>> /\ trace' = <<>>)
    /\ trace' # trace => (passes' = passes /\ source' = source
                          /\ items_list' = items_list)

C26_MaterialisedOnce == [](C26_State) /\ [][C26_Step]_vars

\* the second batch of an iterable of two items is being sent
C26_Witness ==
    /\ source.kind = "iterator"
    /\ Len(source.items) = 2
    /\ batch_size = 1
    /\ pc = "await_put"
    /\ batch_num = 2
    /\ passes = 1

\* ------------------------------------------------------------------ C21
\* C21: in upload_points_to_qdrant no request is issued and no reply is
\* consumed unless the session is open, the session is open from before the
\* first request, it is closed whenever the node has returned (after a
\* successful upload and after an exception of create_collection or of
\* upload_documents alike), and a closed session stays closed.
C21_State ==
    /\ session = "none" => (trace = <<>> /\ op_requests = 0 /\ node_pc = "start")
    /\ node_pc \in {"create", "upload"} => session = "open"
    /\ node_pc = "done" => (session = "closed" /\ node_status # NoVal)

C21_Step ==
    /\ (trace' # trace \/ op_requests' # op_requests \/ inflight' # inflight)
       => (session = "open" /\ session' = "open")
    /\ session = "closed" => session' = "closed"

C21_SessionLifecycle == [](C21_State) /\ [][C21_Step]_vars

\* the node has returned after create_collection raised
C21_Witness ==
    /\ node_pc = "done"
    /\ op_pc = "raised"
    /\ session = "closed"
    /\ node_status = "error uploading documents to Qdrant collection"

\* ------------------------------------------------------------------ C22
\* C22: a call of get_collection_info issues the collection-info GET and
\* nothing else; a call of verify_upload issues that GET and then the
\* scroll POST with limit 5 (the sample size), without vectors and with
\* payload, and nothing else; neither issues a PUT, and while either runs
\* the store keeps the collections and the points it holds.
ReadOnlyOps == {"get_collection_info", "verify_upload"}

C22_State ==
    op_name \in ReadOnlyOps
    => LET log == read_requests(op_name, op_requests, config)
       IN  /\ Len(log) = op_requests
           /\ op_requests >= 1
           /\ op_requests <= (IF op_name = "verify_upload" THEN 2 ELSE 1)
           /\ log[1].method = "GET"
           /\ log[1].path = "/collections/{name}"
           /\ ~log[1].body.present
           /\ Len(log) = 2
              => /\ log[2].method = "POST"
                 /\ log[2].path = "/collections/{name}/points/scroll"
                 /\ log[2].body.limit = 5
                 /\ ~log[2].body.with_vectors
                 /\ log[2].body.with_payload

C22_Step ==
    (op_name \in ReadOnlyOps \/ op_name' \in ReadOnlyOps)
    => (collections' = collections /\ store' = store)

C22_ReadOnly == [](C22_State) /\ [][C22_Step]_vars

\* verify_upload has returned against a store that holds the collection
C22_Witness ==
    /\ op_name = "verify_upload"
    /\ op_pc = "returned"
    /\ op_requests = 2
    /\ collections = 1

\* ------------------------------------------------------------------ C38
\* the edges and conditional edges the claim lists for NODES_FUNCS
ExpectedEdges ==
    {<<START, "document_parser">>,
     <<"document_parser", "qa_generator">>,
     <<"qa_generator", "evaluator">>,
     <<"qa_refiner", "evaluator">>,
     <<"conform_points_to_qdrant", "qdrant_uploader">>,
     <<"qdrant_uploader", END>>}

ExpectedBranches ==
    {<<"evaluator", RETRY, "qa_refiner">>,
     <<"evaluator", CORRECT, "conform_points_to_qdrant">>,
     <<"evaluator", MAX_RETRY, "conform_points_to_qdrant">>}

UploadBranch == {"conform_points_to_qdrant", "qdrant_uploader"}

ClaimedDecision(s) ==
    IF s.evaluator_response = "retry"
    THEN IF s.max_retry < MaxRetry THEN RETRY ELSE MAX_RETRY
    ELSE CORRECT

\* C33: called on a state without error, evaluator_router returns RETRY for
\* "retry" below the limit, MAX_RETRY for "retry" at or above the limit of
\* 3, and CORRECT for every other evaluation.
C33_RouterDecision ==
    (graph.branches = {} /\ decision # NoVal /\ state.error = NoVal)
       => decision = ClaimedDecision(state)

\* ------------------------------------------------------------------ C34
\* C34: once an error is recorded the run does not stop on an exception,
\* and every value the router has returned is a key of the conditional
\* mapping of the evaluator node.
C34_ErrorRunsStayMapped ==
    (graph.node_functions = NODES_FUNCS /\ state.error # NoVal)
       => /\ graph_pc # "raised"
          /\ decision \in {NoVal, RETRY, CORRECT, MAX_RETRY}

\* ------------------------------------------------------------------ C35
\* C35: a step taken while the state holds an error leaves the whole state
\* as it is (the error and max_retry included), makes no LLM call and
\* sends no request to the vector store.
C35_ErrorSticky ==
    [][state.error # NoVal
          => /\ state' = state
             /\ llm_calls' = llm_calls
             /\ op_requests' = op_requests
             /\ add_calls' = add_calls
             /\ verify_calls' = verify_calls
             /\ session' = session]_vars

\* the refiner, called on a state that already held an error, has returned
C35_Witness ==
    /\ graph_pc = "returned"
    /\ runs["qa_refiner"] = 1
    /\ state.error # NoVal
    /\ state.status = NoVal
    /\ state.max_retry = 2
    /\ llm_calls = 0

\* ------------------------------------------------------------------ C36
\* C36: when the uploader node starts in the workflow with no error
\* recorded, refined_qa is populated.
C36_UploaderHasRefinedQa ==
    (/\ graph.node_functions = NODES_FUNCS
     /\ graph_pc = "qdrant_uploader"
     /\ node_pc = "start"
     /\ state.error = NoVal)
       => state.refined_qa # NoVal

\* ------------------------------------------------------------------ C37
\* C37: when upload_points_to_qdrant is done, a failure of
\* create_collection or of upload_documents has been recorded (error set,
\* error status) and not raised, and the status is "successfully uploaded
\* documents" exactly when both calls returned.
C37_FailuresRecorded ==
    node_pc = "done"
       => LET failed == op_pc = "raised" \/ pc = "raised"
              both == op_pc = "returned" /\ pc = "returned"
          IN  /\ failed => /\ node_error # NoVal
                           /\ node_status = "error uploading documents to Qdrant collection"
              /\ node_status = "successfully uploaded documents" <=> both
              /\ both => node_error = NoVal
              /\ failed \/ both

\* upload_documents failed after create_collection returned, and the node
\* has returned with the error recorded
C37_Witness ==
    /\ node_pc = "done"
    /\ op_pc = "returned"
    /\ pc = "raised"
    /\ node_error = "RetryError"
    /\ session = "closed"

\* ------------------------------------------------------------------ C39
\* the arguments for which the claim says add_route raises
ClaimedInvalid(path, methods, status_code) ==
    \/ path = ""
    \/ methods = <<>>
    \/ \E k \in DOMAIN methods : methods[k] \notin valid_methods
    \/ status_code \notin 100 .. 599

\* C39: a call of add_route with an endpoint raises ValueError and leaves
\* the routes as they are when the path is empty, the method list is empty
\* or holds a name outside the eight methods, or the status code is outside
\* 100..599; every other call appends exactly one route.
C39_AddRouteValidates ==
    [][\A path \in Paths, methods \in MethodLists, status_code \in StatusCodes :
          add_route(path, "handler", methods, status_code)
             => IF ClaimedInvalid(path, methods, status_code)
                THEN route_exc' = "ValueError" /\ routes' = routes
                ELSE /\ route_exc' = NoVal
                     /\ routes' = Append(routes, Route(path, methods, status_code))]_vars

\* ------------------------------------------------------------------ C31
\* C31: the session of the upload is open only after every encode call has
\* returned, and each entry handed to upload_documents carries the text of
\* its own dictionary and the embedding of that text, whatever the order in
\* which the encode calls returned.
C31_VectorsMatchTexts ==
    /\ session # "none"
          => /\ enc_pc = "conformed"
             /\ \A j \in DOMAIN encoded : encoded[j] # NoVector
    /\ enc_pc = "conformed"
          => /\ Len(conformed_collection) = Len(prepared_collection)
             /\ \A j \in DOMAIN conformed_collection :
                   /\ conformed_collection[j].payload.text = prepared_collection[j].text
                   /\ conformed_collection[j].vector =
                         encode_document(conformed_collection[j].payload.text)

\* two different texts whose encode calls returned in reverse order, and
\* the session is open
C31_Witness ==
    /\ session = "open"
    /\ Len(prepared_collection) = 2
    /\ prepared_collection[1].text # prepared_collection[2].text
    /\ finished = <<2, 1>>
    /\ Len(conformed_collection) = 2

====
